---- MODULE Spec2Model ----
(***************************************************************************)
(* Crawl engine of the site-audit crawler: URL normalisation, navigation   *)
(* scoring, the frontier loop of Crawler._crawl, the worker task           *)
(* crawl_site and the issue detector's store step.                         *)
(*                                                                         *)
(* Strings of the program are sequences of one-character strings, so that  *)
(* lower(), endswith(), split() and the URL parser act on real text.       *)
(***************************************************************************)
EXTENDS Integers, Sequences, FiniteSets, TLC

(***************************************************************************)
(* String primitives (Python str methods used by the source).              *)
(***************************************************************************)

\* str.lower() on one character
LowerChar(c) ==
  CASE c = "A" -> "a" [] c = "B" -> "b" [] c = "C" -> "c" [] c = "D" -> "d"
    [] c = "E" -> "e" [] c = "F" -> "f" [] c = "G" -> "g" [] c = "H" -> "h"
    [] c = "I" -> "i" [] c = "J" -> "j" [] c = "K" -> "k" [] c = "L" -> "l"
    [] c = "M" -> "m" [] c = "N" -> "n" [] c = "O" -> "o" [] c = "P" -> "p"
    [] c = "Q" -> "q" [] c = "R" -> "r" [] c = "S" -> "s" [] c = "T" -> "t"
    [] c = "U" -> "u" [] c = "V" -> "v" [] c = "W" -> "w" [] c = "X" -> "x"
    [] c = "Y" -> "y" [] c = "Z" -> "z" [] OTHER -> c

\* str.lower()
Lower(s) == [i \in 1..Len(s) |-> LowerChar(s[i])]

\* str.startswith(p)
StartsWith(s, p) == Len(p) <= Len(s) /\ SubSeq(s, 1, Len(p)) = p

\* str.endswith(p)
EndsWith(s, p) == Len(p) <= Len(s) /\ SubSeq(s, Len(s) - Len(p) + 1, Len(s)) = p

\* 1-based index of the first occurrence of p in s at or after from, 0 if none
\* (str.find, shifted by one)
Find(s, p, from) ==
  LET hits == {i \in from..(Len(s) - Len(p) + 1) : SubSeq(s, i, i + Len(p) - 1) = p}
  IN  IF hits = {} THEN 0 ELSE CHOOSE i \in hits : \A j \in hits : i <= j

\* p in s
Contains(s, p) == Find(s, p, 1) # 0

\* s[from:]
Drop(s, n) == SubSeq(s, n + 1, Len(s))

\* str.split(sep) for a one-character separator: always at least one piece
RECURSIVE Split(_, _)
Split(s, sep) ==
  LET i == Find(s, <<sep>>, 1)
  IN  IF i = 0 THEN <<s>>
      ELSE <<SubSeq(s, 1, i - 1)>> \o Split(Drop(s, i), sep)

\* sep.join(parts)
RECURSIVE Join(_, _)
Join(parts, sep) ==
  IF parts = << >> THEN << >>
  ELSE IF Len(parts) = 1 THEN parts[1]
  ELSE parts[1] \o <<sep>> \o Join(Tail(parts), sep)

\* the elements of a sequence
Range(s) == {s[i] : i \in 1..Len(s)}

(***************************************************************************)
(* urllib.parse.urlparse: scheme (lower-cased by the library), netloc,     *)
(* path, query and fragment of a URL text.                                 *)
(***************************************************************************)
FirstOf(s, chars) ==
  LET hits == {i \in 1..Len(s) : s[i] \in chars}
  IN  IF hits = {} THEN 0 ELSE CHOOSE i \in hits : \A j \in hits : i <= j

\* s cut at index i (0: not found): the text before it and the text after it
Cut(s, i) ==
  [head |-> IF i = 0 THEN s ELSE SubSeq(s, 1, i - 1),
   tail |-> IF i = 0 THEN << >> ELSE Drop(s, i)]

\* s cut at the first occurrence of the character c
CutAt(s, c) == Cut(s, Find(s, <<c>>, 1))

\* the netloc is what follows "//" up to the first "/", "?" or "#"
NetlocCut(s, i) ==
  [head |-> IF i = 0 THEN s ELSE SubSeq(s, 1, i - 1),
   tail |-> IF i = 0 THEN << >> ELSE Drop(s, i - 1)]

NetlocSplit(rest) ==
  IF StartsWith(rest, <<"/","/">>)
  THEN NetlocCut(Drop(rest, 2), FirstOf(Drop(rest, 2), {"/", "?", "#"}))
  ELSE [head |-> << >>, tail |-> rest]

ParsedUrl(scheme, netloc, pq, fragment) ==
  [scheme |-> scheme, netloc |-> netloc, path |-> pq.head, query |-> pq.tail,
   fragment |-> fragment]

ParseAfterNetloc(scheme, netloc, pf) ==
  ParsedUrl(scheme, netloc, CutAt(pf.head, "?"), pf.tail)

ParseAfterScheme(scheme, ns) ==
  ParseAfterNetloc(scheme, ns.head, CutAt(ns.tail, "#"))

ParseScheme(sr) == ParseAfterScheme(Lower(sr.head), NetlocSplit(sr.tail))

urlparse(url) == ParseScheme(CutAt(url, ":"))

(***************************************************************************)
(* Crawler._normalize_url                                                  *)
(***************************************************************************)
tracking_params ==
  { <<"u","t","m","_","s","o","u","r","c","e">>, <<"u","t","m","_","m","e","d","i","u","m">>, <<"u","t","m","_","c","a","m","p","a","i","g","n">>, <<"u","t","m","_","t","e","r","m">>,
    <<"u","t","m","_","c","o","n","t","e","n","t">>, <<"f","b","c","l","i","d">>, <<"g","c","l","i","d">> }

\* path.endswith('/') -> path[:-1]: exactly one trailing slash is removed
StripTrailingSlash(path) ==
  IF EndsWith(path, <<"/">>) THEN SubSeq(path, 1, Len(path) - 1) ELSE path

\* variant that leaves every port in place
KeepPort(scheme, netloc) == netloc

\* the default-port test and netloc.rsplit(':', 1)[0]
StripDefaultPort(scheme, netloc) ==
  IF \/ (scheme = <<"h","t","t","p">> /\ EndsWith(netloc, <<":","8","0">>))
     \/ (scheme = <<"h","t","t","p","s">> /\ EndsWith(netloc, <<":","4","4","3">>))
  THEN LET colons == {i \in 1..Len(netloc) : netloc[i] = ":"}
           last   == CHOOSE i \in colons : \A j \in colons : j <= i
       IN  SubSeq(netloc, 1, last - 1)
  ELSE netloc

\* one query parameter is kept unless it has the form name=value with a
\* tracking name (compared in lower case); kept parameters are re-emitted
\* as they were
KeepParam(param) ==
  LET e == Find(param, <<"=">>, 1)
  IN  IF e = 0 THEN TRUE
      ELSE Lower(SubSeq(param, 1, e - 1)) \notin tracking_params

RECURSIVE FilterParams(_)
FilterParams(params) ==
  IF params = << >> THEN << >>
  ELSE (IF KeepParam(Head(params)) THEN <<Head(params)>> ELSE << >>)
       \o FilterParams(Tail(params))

\* '?' + query if query else ''
QueryPart(query) == IF query # << >> THEN <<"?">> \o query ELSE << >>

StripTracking(query) ==
  IF query = << >> THEN << >>
  ELSE Join(FilterParams(Split(query, "&")), "&")

\* the canonical text of the parsed URL
NormalizeParsed(parsed, path0) ==
  parsed.scheme \o <<":","/","/">>
    \o StripDefaultPort(parsed.scheme, Lower(parsed.netloc))
    \o (IF path0 = << >> THEN <<"/">> ELSE path0)
    \o QueryPart(StripTracking(parsed.query))

NormalizePath(parsed) ==
  NormalizeParsed(parsed, StripTrailingSlash(Lower(parsed.path)))

_normalize_url(url) == NormalizePath(urlparse(url))

(***************************************************************************)
(* Regular expressions of the source, by shape.  A pattern is a record:    *)
(*   exact  ^t$        prefix  ^t        lit  t (anywhere)                 *)
(*   litany t.+        litdigit  t\d+    date  /\d{4}/\d{2}/               *)
(*   locale /[a-z]{2}/[a-z]+/.+                                            *)
(***************************************************************************)
Digits == {"0", "1", "2", "3", "4", "5", "6", "7", "8", "9"}

Letters ==
  {"a", "b", "c", "d", "e", "f", "g", "h", "i", "j", "k", "l", "m",
   "n", "o", "p", "q", "r", "s", "t", "u", "v", "w", "x", "y", "z"}

P(k, t) == [k |-> k, t |-> t]

\* re.match / re.search of one pattern against a text
Matches(pat, s) ==
  CASE pat.k = "exact"    -> s = pat.t
    [] pat.k = "prefix"   -> StartsWith(s, pat.t)
    [] pat.k = "lit"      -> Contains(s, pat.t)
    [] pat.k = "litany"   ->
         \E i \in 1..Len(s) :
            /\ i + Len(pat.t) <= Len(s)
            /\ SubSeq(s, i, i + Len(pat.t) - 1) = pat.t
    [] pat.k = "litdigit" ->
         \E i \in 1..Len(s) :
            /\ i + Len(pat.t) <= Len(s)
            /\ SubSeq(s, i, i + Len(pat.t) - 1) = pat.t
            /\ s[i + Len(pat.t)] \in Digits
    [] pat.k = "date"     ->
         \E i \in 1..Len(s) :
            /\ i + 8 <= Len(s)
            /\ s[i] = "/" /\ s[i + 5] = "/" /\ s[i + 8] = "/"
            /\ \A j \in {1, 2, 3, 4, 6, 7} : s[i + j] \in Digits
    [] pat.k = "locale"   ->
         \E i \in 1..Len(s) : \E n \in 1..Len(s) :
            /\ i + 5 + n <= Len(s)
            /\ s[i] = "/" /\ s[i + 1] \in Letters /\ s[i + 2] \in Letters
            /\ s[i + 3] = "/"
            /\ \A j \in 1..n : s[i + 3 + j] \in Letters
            /\ s[i + 4 + n] = "/"
    [] OTHER -> FALSE

\* any(re.search(p, s) for p in patterns)
AnyMatch(patterns, s) == \E i \in 1..Len(patterns) : Matches(patterns[i], s)

(***************************************************************************)
(* Crawler._calculate_nav_score                                            *)
(***************************************************************************)
main_page_patterns ==
  << P("exact", <<"/">>), P("prefix", <<"/","a","b","o","u","t">>), P("prefix", <<"/","c","o","n","t","a","c","t">>),
     P("prefix", <<"/","s","e","r","v","i","c","e","s">>), P("prefix", <<"/","p","r","o","d","u","c","t","s">>),
     P("prefix", <<"/","p","r","i","c","i","n","g">>), P("prefix", <<"/","f","e","a","t","u","r","e","s">>),
     P("prefix", <<"/","s","o","l","u","t","i","o","n","s">>), P("prefix", <<"/","t","e","a","m">>),
     P("prefix", <<"/","c","a","r","e","e","r">>), P("prefix", <<"/","c","a","s","e","-","s","t","u","d">>),
     P("prefix", <<"/","p","o","r","t","f","o","l","i","o">>), P("exact", <<"/","w","o","r","k">>),
     P("prefix", <<"/","c","l","i","e","n","t","s">>), P("prefix", <<"/","t","e","s","t","i","m","o","n","i","a","l","s">>),
     P("prefix", <<"/","f","a","q">>), P("exact", <<"/","b","l","o","g">>), P("exact", <<"/","n","e","w","s">>) >>

penalty_patterns ==
  << P("litany", <<"/","b","l","o","g","/">>), P("litany", <<"/","n","e","w","s","/">>),
     P("lit", <<"/","p","o","s","t","/">>), P("lit", <<"/","p","o","s","t","s","/">>),
     P("lit", <<"/","a","r","t","i","c","l","e","/">>), P("lit", <<"/","a","r","t","i","c","l","e","s","/">>),
     P("date", << >>), P("lit", <<"/","t","a","g","/">>), P("lit", <<"/","t","a","g","s","/">>),
     P("lit", <<"/","c","a","t","e","g","o","r","y","/">>), P("lit", <<"/","a","u","t","h","o","r","/">>),
     P("litdigit", <<"/","p","a","g","e","/">>), P("lit", <<"?">>) >>

utility_patterns ==
  << P("lit", <<"/","p","r","i","v","a","c","y">>), P("lit", <<"/","t","e","r","m","s">>), P("lit", <<"/","l","e","g","a","l">>),
     P("lit", <<"/","c","o","o","k","i","e">>), P("lit", <<"/","g","d","p","r">>), P("lit", <<"/","i","m","p","r","i","n","t">>),
     P("lit", <<"/","d","i","s","c","l","a","i","m","e","r">>), P("lit", <<"/","l","o","g","i","n">>), P("lit", <<"/","s","i","g","n","i","n">>),
     P("lit", <<"/","s","i","g","n","u","p">>), P("lit", <<"/","r","e","g","i","s","t","e","r">>), P("lit", <<"/","c","a","r","t">>),
     P("lit", <<"/","c","h","e","c","k","o","u","t">>), P("lit", <<"/","a","c","c","o","u","n","t">>) >>

\* depth_bonuses.get(depth, 0)
depth_bonuses(depth) ==
  CASE depth = 0 -> 10 [] depth = 1 -> 8 [] depth = 2 -> 4 [] OTHER -> 0

\* self.nav_scores.get(url, 0)
StructuralScore(scores, url) ==
  IF url \in DOMAIN scores THEN scores[url] ELSE 0

\* the pattern bonus and penalties of a lower-cased path
PatternScore(path) ==
  (IF AnyMatch(main_page_patterns, path) THEN 5 ELSE 0)
    - (IF AnyMatch(penalty_patterns, path) THEN 10 ELSE 0)
    - (IF AnyMatch(utility_patterns, path) THEN 15 ELSE 0)

\* the sum before the floor
RawNavScore(scores, url, depth) ==
  StructuralScore(scores, url) + depth_bonuses(depth)
    + PatternScore(Lower(urlparse(url).path))

Max(a, b) == IF a >= b THEN a ELSE b

\* variant without the floor of max(0, score)
NavScoreNoFloor(scores, url, depth) == RawNavScore(scores, url, depth)

_calculate_nav_score(scores, url, depth) ==
  Max(0, RawNavScore(scores, url, depth))

(***************************************************************************)
(* app/core/domain_blacklist.py: the static categorised sets               *)
(***************************************************************************)
SOCIAL_MEDIA_DOMAINS ==
  { <<"f","a","c","e","b","o","o","k",".","c","o","m">>, <<"f","b",".","c","o","m">>, <<"t","w","i","t","t","e","r",".","c","o","m">>, <<"x",".","c","o","m">>,
    <<"i","n","s","t","a","g","r","a","m",".","c","o","m">>, <<"l","i","n","k","e","d","i","n",".","c","o","m">>, <<"y","o","u","t","u","b","e",".","c","o","m">>, <<"y","o","u","t","u",".","b","e">>,
    <<"t","i","k","t","o","k",".","c","o","m">>, <<"p","i","n","t","e","r","e","s","t",".","c","o","m">>, <<"s","n","a","p","c","h","a","t",".","c","o","m">>,
    <<"r","e","d","d","i","t",".","c","o","m">>, <<"t","u","m","b","l","r",".","c","o","m">>, <<"w","h","a","t","s","a","p","p",".","c","o","m">>, <<"t","e","l","e","g","r","a","m",".","o","r","g">>,
    <<"d","i","s","c","o","r","d",".","c","o","m">>, <<"t","w","i","t","c","h",".","t","v">>, <<"v","i","m","e","o",".","c","o","m">>, <<"f","l","i","c","k","r",".","c","o","m">> }

ANALYTICS_TRACKING ==
  { <<"g","o","o","g","l","e","-","a","n","a","l","y","t","i","c","s",".","c","o","m">>, <<"g","o","o","g","l","e","t","a","g","m","a","n","a","g","e","r",".","c","o","m">>,
    <<"d","o","u","b","l","e","c","l","i","c","k",".","n","e","t">>, <<"f","a","c","e","b","o","o","k",".","n","e","t">>, <<"a","n","a","l","y","t","i","c","s",".","g","o","o","g","l","e",".","c","o","m">>,
    <<"f","a","c","e","b","o","o","k",".","c","o","m","/","t","r">>, <<"c","o","n","n","e","c","t",".","f","a","c","e","b","o","o","k",".","n","e","t">>,
    <<"p","i","x","e","l",".","f","a","c","e","b","o","o","k",".","c","o","m">>, <<"a","m","p","l","i","t","u","d","e",".","c","o","m">>, <<"s","e","g","m","e","n","t",".","c","o","m">>,
    <<"s","e","g","m","e","n","t",".","i","o">>, <<"h","o","t","j","a","r",".","c","o","m">>, <<"f","u","l","l","s","t","o","r","y",".","c","o","m">>,
    <<"m","i","x","p","a","n","e","l",".","c","o","m">>, <<"q","u","a","n","t","c","a","s","t",".","c","o","m">>, <<"s","c","o","r","e","c","a","r","d","r","e","s","e","a","r","c","h",".","c","o","m">>,
    <<"c","h","a","r","t","b","e","a","t",".","c","o","m">> }

AD_NETWORKS ==
  { <<"g","o","o","g","l","e","s","y","n","d","i","c","a","t","i","o","n",".","c","o","m">>, <<"g","o","o","g","l","e","a","d","s","e","r","v","i","c","e","s",".","c","o","m">>,
    <<"a","d","r","o","l","l",".","c","o","m">>, <<"a","d","v","e","r","t","i","s","i","n","g",".","c","o","m">>, <<"a","d","s","e","n","s","e",".","g","o","o","g","l","e",".","c","o","m">>,
    <<"a","d","s",".","g","o","o","g","l","e",".","c","o","m">>, <<"t","a","b","o","o","l","a",".","c","o","m">>, <<"o","u","t","b","r","a","i","n",".","c","o","m">>,
    <<"c","r","i","t","e","o",".","c","o","m">>, <<"a","d","f","o","r","m",".","c","o","m">>, <<"o","p","e","n","x",".","n","e","t">>,
    <<"r","u","b","i","c","o","n","p","r","o","j","e","c","t",".","c","o","m">>, <<"p","u","b","m","a","t","i","c",".","c","o","m">> }

CDNS_INFRASTRUCTURE ==
  { <<"c","l","o","u","d","f","l","a","r","e",".","c","o","m">>, <<"c","l","o","u","d","f","r","o","n","t",".","n","e","t">>, <<"a","k","a","m","a","i",".","n","e","t">>,
    <<"f","a","s","t","l","y",".","n","e","t">>, <<"j","s","d","e","l","i","v","r",".","n","e","t">>, <<"u","n","p","k","g",".","c","o","m">>,
    <<"c","d","n","j","s",".","c","l","o","u","d","f","l","a","r","e",".","c","o","m">>, <<"f","o","n","t","s",".","g","o","o","g","l","e","a","p","i","s",".","c","o","m">>,
    <<"f","o","n","t","s",".","g","s","t","a","t","i","c",".","c","o","m">> }

AUTH_LOGIN ==
  { <<"a","c","c","o","u","n","t","s",".","g","o","o","g","l","e",".","c","o","m">>, <<"l","o","g","i","n",".","m","i","c","r","o","s","o","f","t","o","n","l","i","n","e",".","c","o","m">>,
    <<"i","d",".","a","p","p","l","e",".","c","o","m">>, <<"a","u","t","h",".","a","m","a","z","o","n",".","c","o","m">>, <<"g","i","t","h","u","b",".","c","o","m","/","l","o","g","i","n">>,
    <<"g","i","t","l","a","b",".","c","o","m","/","u","s","e","r","s","/","s","i","g","n","_","i","n">> }

SEARCH_ENGINES ==
  { <<"g","o","o","g","l","e",".","c","o","m","/","s","e","a","r","c","h">>, <<"b","i","n","g",".","c","o","m","/","s","e","a","r","c","h">>, <<"y","a","h","o","o",".","c","o","m","/","s","e","a","r","c","h">>,
    <<"d","u","c","k","d","u","c","k","g","o",".","c","o","m">>, <<"b","a","i","d","u",".","c","o","m">>, <<"y","a","n","d","e","x",".","c","o","m">>, <<"a","s","k",".","c","o","m">> }

ECOMMERCE_PLATFORMS ==
  { <<"a","m","a","z","o","n",".","c","o","m">>, <<"e","b","a","y",".","c","o","m">>, <<"a","l","i","b","a","b","a",".","c","o","m">>, <<"a","l","i","e","x","p","r","e","s","s",".","c","o","m">>,
    <<"w","a","l","m","a","r","t",".","c","o","m">>, <<"t","a","r","g","e","t",".","c","o","m">>, <<"s","h","o","p","i","f","y",".","c","o","m">> }

FILE_SHARING ==
  { <<"d","r","i","v","e",".","g","o","o","g","l","e",".","c","o","m">>, <<"d","r","o","p","b","o","x",".","c","o","m">>, <<"o","n","e","d","r","i","v","e",".","l","i","v","e",".","c","o","m">>,
    <<"b","o","x",".","c","o","m">>, <<"m","e","g","a",".","n","z">>, <<"m","e","d","i","a","f","i","r","e",".","c","o","m">>, <<"w","e","t","r","a","n","s","f","e","r",".","c","o","m">> }

ADULT_CONTENT ==
  { <<"p","o","r","n","h","u","b",".","c","o","m">>, <<"x","v","i","d","e","o","s",".","c","o","m">>, <<"x","n","x","x",".","c","o","m">>, <<"r","e","d","t","u","b","e",".","c","o","m">>,
    <<"y","o","u","p","o","r","n",".","c","o","m">>, <<"x","h","a","m","s","t","e","r",".","c","o","m">>, <<"t","u","b","e","8",".","c","o","m">>,
    <<"s","p","a","n","k","b","a","n","g",".","c","o","m">>, <<"t","x","x","x",".","c","o","m">>, <<"e","p","o","r","n","e","r",".","c","o","m">>, <<"h","q","p","o","r","n","e","r",".","c","o","m">>,
    <<"t","n","a","f","l","i","x",".","c","o","m">>, <<"d","r","t","u","b","e","r",".","c","o","m">>, <<"k","e","e","z","m","o","v","i","e","s",".","c","o","m">>,
    <<"p","o","r","n","t","r","e","x",".","c","o","m">>, <<"4","t","u","b","e",".","c","o","m">>, <<"f","a","p","h","o","u","s","e",".","c","o","m">>,
    <<"o","n","l","y","f","a","n","s",".","c","o","m">>, <<"m","a","n","y","v","i","d","s",".","c","o","m">>, <<"c","h","a","t","u","r","b","a","t","e",".","c","o","m">>,
    <<"s","t","r","i","p","c","h","a","t",".","c","o","m">>, <<"c","a","m","4",".","c","o","m">>, <<"b","o","n","g","a","c","a","m","s",".","c","o","m">>,
    <<"l","i","v","e","j","a","s","m","i","n",".","c","o","m">>, <<"m","y","f","r","e","e","c","a","m","s",".","c","o","m">>, <<"c","a","m","s","o","d","a",".","c","o","m">>,
    <<"a","d","u","l","t","f","r","i","e","n","d","f","i","n","d","e","r",".","c","o","m">>, <<"a","s","h","l","e","y","-","m","a","d","i","s","o","n",".","c","o","m">>, <<"f","l","i","n","g",".","c","o","m">>,
    <<"a","l","t",".","c","o","m">> }

DOMAIN_BLACKLIST ==
  SOCIAL_MEDIA_DOMAINS \cup ANALYTICS_TRACKING \cup AD_NETWORKS
    \cup CDNS_INFRASTRUCTURE \cup AUTH_LOGIN \cup SEARCH_ENGINES
    \cup ECOMMERCE_PLATFORMS \cup FILE_SHARING \cup ADULT_CONTENT

\* domain[4:] when the domain starts with "www."
StripWww(domain) == IF StartsWith(domain, <<"w","w","w",".">>) THEN Drop(domain, 4) ELSE domain

\* is_domain_blacklisted: exact, suffix or substring match of a listed domain
DomainListed(blacklist, domain) ==
  \/ domain \in blacklist
  \/ \E blacklisted_domain \in blacklist :
        \/ EndsWith(domain, blacklisted_domain)
        \/ Contains(domain, blacklisted_domain)

\* is_domain_blacklisted with the module global holding blacklist
BlacklistedUnder(blacklist, url) ==
  DomainListed(blacklist, StripWww(Lower(urlparse(url).netloc)))

\* during a crawl the global holds the combined static set
is_domain_blacklisted(url) == BlacklistedUnder(DOMAIN_BLACKLIST, url)

(***************************************************************************)
(* Crawler._should_crawl_url (used for sitemap entries only)               *)
(***************************************************************************)
skip_extensions ==
  { <<".","p","d","f">>, <<".","d","o","c">>, <<".","d","o","c","x">>, <<".","p","p","t">>, <<".","p","p","t","x">>, <<".","x","l","s">>, <<".","x","l","s","x">>,
    <<".","z","i","p">>, <<".","r","a","r">>, <<".","t","a","r">>, <<".","g","z">>, <<".","j","p","g">>, <<".","j","p","e","g">>, <<".","p","n","g">>,
    <<".","g","i","f">>, <<".","m","p","3">>, <<".","m","p","4">>, <<".","a","v","i">>, <<".","m","o","v">>, <<".","w","m","v">>, <<".","f","l","v">>,
    <<".","c","s","s">>, <<".","j","s">> }

ShouldCrawlParsed(parsed) ==
  /\ parsed.scheme \in { <<"h","t","t","p">>, <<"h","t","t","p","s">> }
  /\ ~ \E ext \in skip_extensions : EndsWith(Lower(parsed.path), ext)

_should_crawl_url(url) == ShouldCrawlParsed(urlparse(url))

(***************************************************************************)
(* The environment: a bounded universe of URLs and of sites.               *)
(***************************************************************************)
U_home   == <<"h","t","t","p",":","/","/","s",".","i","o","/">>
U_about  == <<"h","t","t","p",":","/","/","s",".","i","o","/","a","b","o","u","t">>
U_aboutS == <<"h","t","t","p",":","/","/","s",".","i","o","/","a","b","o","u","t","/">>
U_b      == <<"h","t","t","p",":","/","/","s",".","i","o","/","b">>
U_c      == <<"h","t","t","p",":","/","/","s",".","i","o","/","c">>
U_terms  == <<"h","t","t","p",":","/","/","s",".","i","o","/","t","e","r","m","s">>
U_err    == <<"h","t","t","p",":","/","/","s",".","i","o","/","e","r","r">>
U_gone   == <<"h","t","t","p",":","/","/","s",".","i","o","/","g","o","n","e">>
U_pdf    == <<"h","t","t","p",":","/","/","s",".","i","o","/","f",".","p","d","f">>
U_e1     == <<"h","t","t","p",":","/","/","e",".","i","o","/">>
U_e2     == <<"h","t","t","p",":","/","/","f",".","i","o","/","p">>
U_x      == <<"h","t","t","p",":","/","/","b","o","x",".","c","o","m","/">>

\* rejected: the URLs whose insert into pages the store refuses for a
\* reason of its own
\* what the server answers for a URL: an HTML page (with its anchors and
\* whether it has an H1), a 404 HTML page, a non-HTML resource, or a
\* connection failure (the request raises)
Html(links, h1) == [kind |-> "html", links |-> links, h1 |-> h1]
NotFound == [kind |-> "notfound", links |-> << >>, h1 |-> FALSE]
NonHtml  == [kind |-> "nonhtml", links |-> << >>, h1 |-> FALSE]
Failure  == [kind |-> "error", links |-> << >>, h1 |-> FALSE]

\* the empty homepage navigation map and maps the homepage pass can produce
NoNav == [u \in {} |-> 0]

Sites ==
  << \* 1: URL variants of one page, a cycle, a sitemap entry
     [ seeds   |-> {U_home, U_terms},
       pages   |-> ( U_home :> Html(<<U_about, U_b, U_aboutS>>, TRUE)
                  @@ U_about :> Html(<<U_home, U_c>>, TRUE)
                  @@ U_aboutS :> Html(<<U_home, U_c>>, TRUE)
                  @@ U_b :> Html(<<U_c, U_about>>, TRUE)
                  @@ U_c :> Html(<<U_terms>>, TRUE)
                  @@ U_terms :> Html(<<U_home>>, TRUE) ),
       sitemap |-> <<U_c, U_pdf>>,
       navs    |-> { NoNav, (U_about :> 13 @@ U_b :> 5) },
       rejected |-> {} ],
     \* 2: a page linked from the homepage and again, deeper, from a sibling
     [ seeds   |-> {U_home},
       pages   |-> ( U_home :> Html(<<U_about, U_b>>, TRUE)
                  @@ U_about :> Html(<<U_b>>, TRUE)
                  @@ U_b :> Html(<<U_c, U_terms>>, TRUE)
                  @@ U_c :> Html(<< >>, TRUE)
                  @@ U_terms :> Html(<< >>, TRUE) ),
       sitemap |-> << >>,
       navs    |-> { NoNav, (U_about :> 13 @@ U_b :> 10) },
       rejected |-> {} ],
     \* 3: a failing URL, a 404 and a non-HTML resource among good pages
     [ seeds   |-> {U_home, U_err},
       pages   |-> ( U_home :> Html(<<U_err, U_b, U_gone, U_pdf>>, TRUE)
                  @@ U_b :> Html(<<U_home, U_c>>, TRUE)
                  @@ U_c :> Html(<<U_home>>, FALSE)
                  @@ U_gone :> NotFound
                  @@ U_pdf :> NonHtml
                  @@ U_err :> Failure ),
       sitemap |-> << >>,
       navs    |-> { NoNav },
       rejected |-> {} ],
     \* 4: links and sitemap entries to other hosts, one of them blacklisted
     [ seeds   |-> {U_home},
       pages   |-> ( U_home :> Html(<<U_about, U_x, U_e1>>, TRUE)
                  @@ U_about :> Html(<<U_home>>, TRUE)
                  @@ U_e1 :> Html(<<U_e2>>, TRUE)
                  @@ U_e2 :> Html(<< >>, TRUE)
                  @@ U_x :> Html(<< >>, TRUE) ),
       sitemap |-> <<U_e1, U_x, U_e2>>,
       navs    |-> { NoNav },
       rejected |-> {} ],
     \* 5: a page whose row the store rejects although the crawl exists
     [ seeds   |-> {U_home},
       pages   |-> ( U_home :> Html(<<U_about, U_b>>, TRUE)
                  @@ U_about :> Html(<<U_home, U_b>>, TRUE)
                  @@ U_b :> Html(<<U_pdf>>, TRUE)
                  @@ U_pdf :> NonHtml ),
       sitemap |-> << >>,
       navs    |-> { NoNav },
       rejected |-> {U_about, U_pdf} ] >>

\* the answer of site s for url; an unknown URL fails to connect
PageOf(s, url) ==
  IF url \in DOMAIN Sites[s].pages THEN Sites[s].pages[url] ELSE Failure

\* bounds of the policies drawn in Init
MaxPagesBound == 4
MaxDepthBound == 2
MaxExternalBound == 1

\* Python None in an integer column
NULL == -1

(***************************************************************************)
(* State                                                                   *)
(***************************************************************************)
VARIABLES
  pc,                       \* position of the worker task crawl_site
  site,                     \* index of the site being crawled (environment)
  crawl,                    \* the crawls row read at start (policy)
  crawl_exists,             \* the crawls row is still in the store
  crawl_status,             \* crawls.status
  url_queue,                \* Crawler.url_queue
  visited_urls,             \* Crawler.visited_urls
  pages_crawled,            \* Crawler.pages_crawled
  external_domains_crawled, \* Crawler.external_domains_crawled
  crawl_deleted,            \* Crawler.crawl_deleted
  nav_scores,               \* Crawler.nav_scores
  pages,                    \* table pages (rows of this crawl, insertion order)
  links,                    \* table links
  issues,                   \* table issues
  last,                     \* history: what the last loop iteration did
  stop_reason,              \* history: why the loop ended
  failed,                   \* history: the URLs whose iteration raised, and where
  finalized,                \* history: _finalize_primary_pages was called
  runtime_exceeded,         \* time.time() - start_time > max_runtime_sec
  check_due,                \* time.time() - last_existence_check > 30
  soup,                     \* NavDetector.soup: the homepage document
  seo_metadata,             \* table seo_metadata joined with the page URL
  nu,                       \* normalisation study: the URL, in components
  nv,                       \* normalisation study: a variant of nu
  domain_blacklist,         \* the module global DOMAIN_BLACKLIST
  custom_blacklist,         \* the module global CUSTOM_BLACKLIST
  rate_limiter,             \* Crawler.rate_limiter (delay, last_request_time)
  now,                      \* time.time(), in ticks
  requests                  \* history: the HTTP requests issued for the job

vars == << pc, site, crawl, crawl_exists, crawl_status, url_queue, visited_urls,
           pages_crawled, external_domains_crawled, crawl_deleted, nav_scores,
           pages, links, issues, last, stop_reason, failed, finalized,
           runtime_exceeded, check_due, soup, seo_metadata, nu, nv,
           domain_blacklist, custom_blacklist, rate_limiter, now, requests >>

crawlVars == << pc, site, crawl, crawl_exists, crawl_status, url_queue,
                visited_urls, pages_crawled, external_domains_crawled,
                crawl_deleted, nav_scores, pages, links, issues, last,
                stop_reason, failed, finalized, runtime_exceeded, check_due,
                soup, seo_metadata, domain_blacklist, custom_blacklist,
                rate_limiter, now, requests >>

\* the variables of the function studies, idle during a crawl
studyVars == << soup, seo_metadata, nu, nv, domain_blacklist,
               custom_blacklist, rate_limiter, now, requests >>

\* the two clocks the loop reads
clockVars == << runtime_exceeded, check_due >>

\* Crawler.domain
Domain(cr) == urlparse(cr.url).netloc

\* Crawler.primary_nav_urls: the detector's URLs with score >= 8
primary_nav_urls(scores) == {u \in DOMAIN scores : scores[u] >= 8}

\* the Crawl model has no field max_external_links (CrawlBase, CrawlInDB):
\* reading self.crawl.max_external_links raises AttributeError
CrawlHasMaxExternalLinks == FALSE

(***************************************************************************)
(* Crawler._extract_and_process_links                                      *)
(***************************************************************************)
\* the external-link safety checks of one candidate
ExternalDecision(url, netloc, ext, cr) ==
  IF is_domain_blacklisted(url)
  THEN [follow |-> FALSE, ext |-> ext, raised |-> FALSE]
  ELSE IF netloc \notin ext /\ ~CrawlHasMaxExternalLinks
  THEN [follow |-> FALSE, ext |-> ext, raised |-> TRUE]
  ELSE IF netloc \notin ext /\ Cardinality(ext) >= cr.max_external_links
  THEN [follow |-> FALSE, ext |-> ext, raised |-> FALSE]
  ELSE [follow |-> TRUE, ext |-> ext \cup {netloc},
        raised |-> ~CrawlHasMaxExternalLinks]

\* the decision to follow one candidate, with the external hosts after it
FollowDecision(url, netloc, is_internal, new_depth, ext, cr) ==
  IF is_internal /\ new_depth <= cr.internal_depth
  THEN [follow |-> TRUE, ext |-> ext, raised |-> FALSE]
  ELSE IF ~is_internal /\ cr.follow_external_links /\ new_depth <= cr.external_depth
  THEN ExternalDecision(url, netloc, ext, cr)
  ELSE [follow |-> FALSE, ext |-> ext, raised |-> FALSE]

\* the queue item of a followed link
QueueItem(url, new_depth, nav_score, is_navigation) ==
  [url |-> url, depth |-> new_depth, nav_score |-> nav_score,
   is_navigation |-> is_navigation]

\* link_data
LinkData(source_url, url, is_internal, new_depth, nav_score, is_navigation) ==
  [source |-> source_url, target_url |-> url, is_internal |-> is_internal,
   depth |-> new_depth, status_code |-> NULL, nav_score |-> nav_score,
   is_navigation |-> is_navigation]

\* variant that queues every followed link at the back
PlaceLinkAtBack(acc, dec, is_internal, item, link_data) ==
  IF dec.raised THEN [acc EXCEPT !.raised = TRUE, !.ext = dec.ext]
  ELSE IF dec.follow
  THEN [acc EXCEPT !.queue = Append(@, item),
                   !.save = Append(@, link_data), !.ext = dec.ext]
  ELSE IF is_internal
  THEN [acc EXCEPT !.check = Append(@, link_data)]
  ELSE [acc EXCEPT !.save = Append(@, link_data)]

\* where the link goes: the local nav list, the queue, the batch to save or
\* the list to check
PlaceLink(acc, dec, is_internal, item, link_data) ==
  IF dec.raised THEN [acc EXCEPT !.raised = TRUE, !.ext = dec.ext]
  ELSE IF dec.follow
  THEN IF item.is_navigation /\ is_internal
       THEN [acc EXCEPT !.nav = Append(@, item),
                        !.save = Append(@, link_data), !.ext = dec.ext]
       ELSE [acc EXCEPT !.queue = Append(@, item),
                        !.save = Append(@, link_data), !.ext = dec.ext]
  ELSE IF is_internal
  THEN [acc EXCEPT !.check = Append(@, link_data)]
  ELSE [acc EXCEPT !.save = Append(@, link_data)]

ScoredLink(url, source_url, new_depth, is_internal, nav_score, is_navigation, dec, acc) ==
  PlaceLink(acc, dec, is_internal,
            QueueItem(url, new_depth, nav_score, is_navigation),
            LinkData(source_url, url, is_internal, new_depth, nav_score,
                     is_navigation))

ClassifiedLink(url, source_url, new_depth, netloc, is_internal, nav_score, scores, cr, acc) ==
  ScoredLink(url, source_url, new_depth, is_internal, nav_score,
             url \in primary_nav_urls(scores) \/ nav_score >= 8,
             FollowDecision(url, netloc, is_internal, new_depth, acc.ext, cr),
             acc)

ParsedLink(url, source_url, new_depth, netloc, scores, cr, acc) ==
  ClassifiedLink(url, source_url, new_depth, netloc, netloc = Domain(cr),
                 _calculate_nav_score(scores, url, new_depth), scores, cr, acc)

\* one anchor of the page
LinkStep(href, source_url, depth, scores, cr, acc) ==
  IF StartsWith(href, <<"#">>) \/ StartsWith(href, <<"j","a","v","a","s","c","r","i","p","t",":">>) THEN acc
  ELSE ParsedLink(href, source_url, depth + 1, urlparse(href).netloc, scores,
                  cr, acc)

\* the for-loop over the anchors; an exception ends it where it is raised
RECURSIVE ProcessLinks(_, _, _, _, _, _)
ProcessLinks(hrefs, source_url, depth, scores, cr, acc) ==
  IF hrefs = << >> \/ acc.raised THEN acc
  ELSE ProcessLinks(Tail(hrefs), source_url, depth, scores, cr,
                    LinkStep(Head(hrefs), source_url, depth, scores, cr, acc))

\* _check_and_save_link: HEAD, then GET, of a link that is not followed
LinkStatus(s, url) ==
  LET pg == PageOf(s, url)
  IN  CASE pg.kind = "error" -> 0
        [] pg.kind = "notfound" -> 404
        [] OTHER -> 200

CheckedLinks(s, check) ==
  [i \in 1..Len(check) |->
     [check[i] EXCEPT !.status_code = LinkStatus(s, check[i].target_url)]]

(***************************************************************************)
(* Rows written by the crawler                                             *)
(***************************************************************************)
\* _save_page_to_db: the row of a fetched page
PageRow(url, status_code, content_type, nav_score, depth, h1) ==
  [url |-> url, status_code |-> status_code, content_type |-> content_type,
   nav_score |-> nav_score, depth |-> depth, is_primary |-> FALSE, h1 |-> h1]

\* the nav_score and depth columns of a row inserted without them
DefaultNavScore == 0
DefaultDepth == 0

\* _crawl_url, except branch: the synthetic row of a failed URL
ErrorPageRow(url) ==
  [url |-> url, status_code |-> 0, content_type |-> "error",
   nav_score |-> DefaultNavScore, depth |-> DefaultDepth,
   is_primary |-> FALSE, h1 |-> FALSE]

\* _crawl_url, except branch: the issue of a failed URL
CrawlErrorIssue(url) ==
  [type |-> "Crawl Error", severity |-> "high", context |-> url]

(***************************************************************************)
(* Crawler._finalize_primary_pages                                         *)
(***************************************************************************)
MAX_MAIN_PAGES == 15
MIN_NAV_SCORE == 8

exclude_patterns ==
  << P("lit", <<"/","p","r","i","v","a","c","y">>), P("lit", <<"/","t","e","r","m","s">>), P("lit", <<"/","l","e","g","a","l">>),
     P("lit", <<"/","c","o","o","k","i","e">>), P("lit", <<"/","g","d","p","r">>), P("lit", <<"/","i","m","p","r","i","n","t">>),
     P("lit", <<"/","d","i","s","c","l","a","i","m","e","r">>), P("lit", <<"/","l","o","g","i","n">>), P("lit", <<"/","s","i","g","n","i","n">>),
     P("lit", <<"/","s","i","g","n","u","p">>), P("lit", <<"/","r","e","g","i","s","t","e","r">>), P("lit", <<"/","c","a","r","t">>),
     P("lit", <<"/","c","h","e","c","k","o","u","t">>), P("lit", <<"/","a","c","c","o","u","n","t">>), P("lit", <<"/","4","0","4">>),
     P("lit", <<"/","e","r","r","o","r">>),
     P("litany", <<"/","b","l","o","g","/">>), P("litany", <<"/","n","e","w","s","/">>),
     P("lit", <<"/","a","r","t","i","c","l","e","/">>), P("lit", <<"/","p","o","s","t","/">>), P("date", << >>),
     P("lit", <<"/","c","a","t","e","g","o","r","y","/">>), P("lit", <<"/","t","a","g","/">>), P("lit", <<"/","t","a","g","s","/">>),
     P("lit", <<"/","a","u","t","h","o","r","/">>), P("lit", <<"/","a","r","c","h","i","v","e","/">>),
     P("litdigit", <<"/","p","a","g","e","/">>), P("lit", <<"?","p","a","g","e","=">>), P("lit", <<"?","p","=">>),
     P("lit", <<"/","s","e","a","r","c","h">>), P("lit", <<"?","q","=">>), P("lit", <<"?","s","=">>),
     P("lit", <<"/","w","p","-","c","o","n","t","e","n","t","/">>), P("lit", <<"/","u","p","l","o","a","d","s","/">>),
     P("lit", <<"/","m","e","d","i","a","/">>), P("lit", <<"/","a","s","s","e","t","s","/">>), P("locale", << >>) >>

\* x['url'].count('/')
CountSlash(url) == Cardinality({i \in 1..Len(url) : url[i] = "/"})

\* is_homepage of a page row
IsHomepageParsed(parsed) ==
  Lower(parsed.path) \in { << >>, <<"/">> } /\ parsed.query = << >>

IsHomepagePath(url) == IsHomepageParsed(urlparse(url))

\* the exclusion patterns are searched in the path and in '?' + query
IsExcluded(path, query) ==
  \/ AnyMatch(exclude_patterns, path)
  \/ query # << >> /\ AnyMatch(exclude_patterns, <<"?">> \o query)

CandidateParsed(pg, parsed, total_pages, domain) ==
  /\ parsed.netloc = domain
  /\ ~IsExcluded(Lower(parsed.path), parsed.query)
  /\ \/ IsHomepageParsed(parsed)
     \/ pg.nav_score >= MIN_NAV_SCORE
     \/ total_pages <= 6

\* the page survives the host and exclusion tests and meets a criterion
IsCandidate(pg, total_pages, cr) ==
  CandidateParsed(pg, urlparse(pg.url), total_pages, urlparse(cr.url).netloc)

\* variant of the key without the slash count
KeyTupleNoSlash(ha, hb, a, b) ==
  \/ ha < hb
  \/ ha = hb /\ a.nav_score >= b.nav_score

\* tuples (not is_homepage, -nav_score, slash count) compared
KeyTupleLE(ha, hb, a, b) ==
  \/ ha < hb
  \/ ha = hb /\ a.nav_score > b.nav_score
  \/ ha = hb /\ a.nav_score = b.nav_score /\ CountSlash(a.url) <= CountSlash(b.url)

HomeRank(url) == IF IsHomepagePath(url) THEN 0 ELSE 1

\* the sort key of the candidates
KeyLE(a, b) == KeyTupleLE(HomeRank(a.url), HomeRank(b.url), a, b)

\* list.sort is stable: an element goes behind every element not greater
RECURSIVE InsertSorted(_, _, _)
InsertSorted(i, sorted, pgs) ==
  IF sorted = << >> THEN <<i>>
  ELSE IF KeyLE(pgs[Head(sorted)], pgs[i])
       THEN <<Head(sorted)>> \o InsertSorted(i, Tail(sorted), pgs)
       ELSE <<i>> \o sorted

RECURSIVE SortCandidates(_, _, _)
SortCandidates(idx, sorted, pgs) ==
  IF idx = << >> THEN sorted
  ELSE SortCandidates(Tail(idx), InsertSorted(Head(idx), sorted, pgs), pgs)

\* variant without the cap
TopMainNoCap(sorted) == sorted

\* candidates[:MAX_MAIN_PAGES]
TopMain(sorted) ==
  SubSeq(sorted, 1, IF Len(sorted) < MAX_MAIN_PAGES THEN Len(sorted)
                    ELSE MAX_MAIN_PAGES)

CandidateIds(pgs, cr) ==
  SelectSeq([i \in 1..Len(pgs) |-> i],
            LAMBDA i : IsCandidate(pgs[i], Len(pgs), cr))

\* the row indices of the selected main pages
MainPageIds(pgs, cr) ==
  Range(TopMain(SortCandidates(CandidateIds(pgs, cr), << >>, pgs)))

MarkPrimary(pgs, ids) ==
  [i \in 1..Len(pgs) |-> [pgs[i] EXCEPT !.is_primary = (i \in ids)]]

_finalize_primary_pages(pgs, cr) == MarkPrimary(pgs, MainPageIds(pgs, cr))

(***************************************************************************)
(* IssueDetector (the checks over pages, links and seo_metadata) and       *)
(* detect_and_store_issues                                                 *)
(***************************************************************************)
non_html_extensions ==
  { <<".","p","d","f">>, <<".","j","p","g">>, <<".","j","p","e","g">>, <<".","p","n","g">>, <<".","g","i","f">>, <<".","s","v","g">>, <<".","w","e","b","p">>,
    <<".","m","p","4">>, <<".","m","p","3">>, <<".","w","a","v">>, <<".","z","i","p">>, <<".","d","o","c">>, <<".","d","o","c","x">>, <<".","x","l","s">>,
    <<".","x","l","s","x">>, <<".","p","p","t">>, <<".","p","p","t","x">>, <<".","c","s","v">>, <<".","j","s","o","n">>, <<".","x","m","l">> }

_is_html_page(pg) ==
  /\ pg.content_type # "other"
  /\ ~ \E ext \in non_html_extensions : EndsWith(Lower(pg.url), ext)

IssueRows(type, severity, contexts) ==
  [i \in 1..Len(contexts) |->
     [type |-> type, severity |-> severity, context |-> contexts[i]]]

SourcesOf(lks) == [i \in 1..Len(lks) |-> lks[i].source]

UrlsOf(pgs) == [i \in 1..Len(pgs) |-> pgs[i].url]

_detect_broken_links(lks) ==
  IssueRows("Links - Broken Internal Link", "critical",
            SourcesOf(SelectSeq(lks, LAMBDA l : l.is_internal /\ l.status_code >= 400)))

\* the targets of the internal links
LinkedUrls(lks) ==
  {lks[i].target_url : i \in {j \in 1..Len(lks) : lks[j].is_internal}}

OrphanPages(pgs, linked_urls) ==
  SelectSeq(pgs, LAMBDA p : /\ p.url \notin linked_urls
                            /\ p.url # pgs[1].url
                            /\ _is_html_page(p))

_detect_orphan_pages(pgs, lks) ==
  IssueRows("Content - Orphan Page", "medium",
            UrlsOf(OrphanPages(pgs, LinkedUrls(lks))))

\* seo_metadata rows exist for the pages saved by _save_page_to_db
_detect_missing_h1(pgs) ==
  IssueRows("SEO - Missing H1 Heading", "medium",
            UrlsOf(SelectSeq(pgs, LAMBDA p : /\ p.content_type # "error"
                                             /\ ~p.h1
                                             /\ _is_html_page(p))))

\* _fetch_pages selects the rows without an ORDER BY: the store returns
\* them in an order of its choosing; row k comes first, the others follow in
\* the order of their insertion
MoveFirst(pgs, k) ==
  <<pgs[k]>> \o SubSeq(pgs, 1, k - 1) \o SubSeq(pgs, k + 1, Len(pgs))

FetchOrders(pgs) ==
  IF pgs = << >> THEN {<< >>}
  ELSE {MoveFirst(pgs, k) : k \in 1..Len(pgs)}

detect_all_issues(pgs, lks) ==
  _detect_broken_links(lks) \o _detect_orphan_pages(pgs, lks)
    \o _detect_missing_h1(pgs)

\* the issues table after detect_and_store_issues: nothing is written when
\* no issue was detected, else the crawl's rows are deleted and the new
\* ones inserted (the insert fails when the crawl row is gone)
StoreIssues(iss, new, exists) ==
  IF new = << >> THEN iss
  ELSE IF exists THEN new ELSE << >>

detect_and_store_issues(iss, pgs, lks, exists) ==
  StoreIssues(iss, detect_all_issues(pgs, lks), exists)

(***************************************************************************)
(* Initial states                                                          *)
(***************************************************************************)
default_external_depth == 1

Policies(s) ==
  [ url : Sites[s].seeds,
    max_pages : 1..MaxPagesBound,
    internal_depth : 0..MaxDepthBound,
    follow_external_links : BOOLEAN,
    external_depth : {default_external_depth},
    respect_robots_txt : BOOLEAN,
    max_external_links : 0..MaxExternalBound ]

\* the normalisation study is idle during a crawl
NoText == << >>
NoParts == [scheme |-> << >>, host |-> << >>, port |-> << >>, path |-> << >>,
            params |-> << >>, fragment |-> << >>]
NoUrl == [parts |-> NoParts, edits |-> {}, added |-> 0, norm |-> NoText,
          again |-> NoText]

NoLast == [kind |-> "none", url |-> << >>]

\* no homepage document is under study
NoSoup == << >>

\* no administrative operation on the blacklist and no request log is
\* under study
NoList == {}
NoLimiter == [delay |-> 0, last_request_time |-> 0]

IdleOperations ==
  /\ domain_blacklist = NoList
  /\ custom_blacklist = NoList
  /\ rate_limiter = NoLimiter
  /\ now = 0
  /\ requests = << >>

CrawlerInit ==
  /\ url_queue = << >>
  /\ visited_urls = {}
  /\ pages_crawled = 0
  /\ external_domains_crawled = {}
  /\ crawl_deleted = FALSE
  /\ nav_scores = NoNav

Init ==
  /\ pc = "queued"
  /\ site \in 1..Len(Sites)
  /\ crawl \in Policies(site)
  /\ crawl_exists = TRUE
  /\ crawl_status = "queued"
  /\ CrawlerInit
  /\ pages = << >>
  /\ links = << >>
  /\ issues = << >>
  /\ last = NoLast
  /\ stop_reason = "none"
  /\ failed = {}
  /\ finalized = FALSE
  /\ runtime_exceeded = FALSE
  /\ check_due = FALSE
  /\ soup = NoSoup
  /\ seo_metadata = << >>
  /\ nu = NoUrl
  /\ nv = NoUrl
  /\ IdleOperations

(***************************************************************************)
(* crawl_site, first part: read the crawl row and mark it running          *)
(***************************************************************************)
WorkerFetchCrawl ==
  /\ pc = "queued"
  /\ IF crawl_exists
     THEN /\ crawl_status' = "running"
          /\ pc' = "start"
     ELSE \* ValueError("Crawl not found"): the except branch updates no row
          /\ crawl_status' = crawl_status
          /\ pc' = "done"
  /\ UNCHANGED << site, crawl, crawl_exists, url_queue, visited_urls,
                  pages_crawled, external_domains_crawled, crawl_deleted,
                  nav_scores, pages, links, issues, last, stop_reason, failed,
                  finalized, studyVars, clockVars >>

(***************************************************************************)
(* Crawler.start up to the call of _crawl                                  *)
(***************************************************************************)
\* the seed's queue item
SeedItem(scores, cr) ==
  [url |-> cr.url, depth |-> 0,
   nav_score |-> Max(_calculate_nav_score(scores, cr.url, 0), 10),
   is_navigation |-> TRUE]

\* _process_sitemap: the queue items of the sitemap's <loc> entries
SitemapQueue(ok) ==
  [i \in 1..Len(ok) |->
     [url |-> ok[i], depth |-> 0, nav_score |-> 0, is_navigation |-> FALSE]]

SitemapItems(locs) == SitemapQueue(SelectSeq(locs, _should_crawl_url))

Start ==
  /\ pc = "start"
  /\ IF ~crawl_exists
     THEN /\ crawl_deleted' = TRUE
          /\ pc' = "status"
          /\ UNCHANGED << nav_scores, url_queue >>
     ELSE /\ \E ns \in Sites[site].navs : nav_scores' = ns
          /\ url_queue' = <<SeedItem(nav_scores', crawl)>>
               \o (IF crawl.respect_robots_txt
                   THEN SitemapItems(Sites[site].sitemap) ELSE << >>)
          /\ pc' = "crawl"
          /\ UNCHANGED crawl_deleted
  /\ UNCHANGED << site, crawl, crawl_exists, crawl_status, visited_urls,
                  pages_crawled, external_domains_crawled, pages, links,
                  issues, last, stop_reason, failed, finalized, studyVars, clockVars >>

(***************************************************************************)
(* Crawler._crawl: one action per way an iteration can go                  *)
(***************************************************************************)
\* variant of the while condition without the page budget
LoopCondNoBudget == url_queue # << >>

LoopCond == url_queue # << >> /\ pages_crawled < crawl.max_pages

\* the clocks advance while the loop runs; the runtime limit, once
\* exceeded, stays exceeded
TimePasses ==
  /\ pc = "crawl"
  /\ \E late \in BOOLEAN, due \in BOOLEAN :
       /\ runtime_exceeded' = (runtime_exceeded \/ late)
       /\ check_due' = (check_due \/ due)
  /\ << runtime_exceeded', check_due' >> # << runtime_exceeded, check_due >>
  /\ UNCHANGED << pc, site, crawl, crawl_exists, crawl_status, url_queue,
                  visited_urls, pages_crawled, external_domains_crawled,
                  crawl_deleted, nav_scores, pages, links, issues, last,
                  stop_reason, failed, finalized, studyVars >>

\* variant of the break that leaves start() without finalization
LoopTimeoutNoFinalize ==
  /\ pc = "crawl" /\ LoopCond
  /\ runtime_exceeded
  /\ pc' = "status"
  /\ stop_reason' = "timeout"
  /\ UNCHANGED << site, crawl, crawl_exists, crawl_status, url_queue,
                  visited_urls, pages_crawled, external_domains_crawled,
                  crawl_deleted, nav_scores, pages, links, issues, last, failed,
                  finalized, studyVars, clockVars >>

\* elapsed_time > max_runtime_sec: break
LoopTimeout ==
  /\ pc = "crawl" /\ LoopCond
  /\ runtime_exceeded
  /\ pc' = "finalize"
  /\ stop_reason' = "timeout"
  /\ UNCHANGED << site, crawl, crawl_exists, crawl_status, url_queue,
                  visited_urls, pages_crawled, external_domains_crawled,
                  crawl_deleted, nav_scores, pages, links, issues, last, failed,
                  finalized, studyVars, clockVars >>

\* the periodic existence check finds the row gone: break
LoopNoticeDeleted ==
  /\ pc = "crawl" /\ LoopCond
  /\ ~runtime_exceeded
  /\ check_due /\ ~crawl_exists
  /\ crawl_deleted' = TRUE
  /\ pc' = "finalize"
  /\ stop_reason' = "deleted"
  /\ UNCHANGED << site, crawl, crawl_exists, crawl_status, url_queue,
                  visited_urls, pages_crawled, external_domains_crawled,
                  nav_scores, pages, links, issues, last, failed, finalized, studyVars, clockVars >>

\* variant of the tests without the existence check
ChecksPassNoPoll ==
  /\ ~runtime_exceeded
  /\ check_due' = FALSE

\* the iteration passes the runtime test and, when it is due, the
\* existence check, which restarts the 30 s interval
ChecksPass ==
  /\ ~runtime_exceeded
  /\ check_due => crawl_exists
  /\ check_due' = FALSE

\* pop; the normalised URL is already in visited_urls: continue
LoopSkipVisited ==
  /\ pc = "crawl" /\ LoopCond
  /\ ChecksPass
  /\ _normalize_url(Head(url_queue).url) \in visited_urls
  /\ url_queue' = Tail(url_queue)
  /\ last' = [kind |-> "skip", url |-> Head(url_queue).url]
  /\ UNCHANGED << pc, site, crawl, crawl_exists, crawl_status, visited_urls,
                  pages_crawled, external_domains_crawled, crawl_deleted,
                  nav_scores, pages, links, issues, stop_reason, failed,
                  finalized, studyVars, runtime_exceeded >>

\* variant of the pop without the visited test
FreshNoCheck(kinds) ==
  /\ pc = "crawl" /\ LoopCond
  /\ ChecksPass
  /\ PageOf(site, Head(url_queue).url).kind \in kinds
  /\ visited_urls' = visited_urls \cup {_normalize_url(Head(url_queue).url)}

\* the head of the queue is popped and marked visited
Fresh(kinds) ==
  /\ pc = "crawl" /\ LoopCond
  /\ ChecksPass
  /\ _normalize_url(Head(url_queue).url) \notin visited_urls
  /\ PageOf(site, Head(url_queue).url).kind \in kinds
  /\ visited_urls' = visited_urls \cup {_normalize_url(Head(url_queue).url)}

\* the insert into pages succeeds: the crawl is there and the store does
\* not refuse the row
PageStored(url) == crawl_exists /\ url \notin Sites[site].rejected

\* an insert into pages; a failure is only logged
InsertPage(row) == IF PageStored(row.url) THEN Append(pages, row) ELSE pages

\* _crawl_url raises in the fetch: error row and issue, result None
FetchError(url) ==
  /\ url_queue' = Tail(url_queue)
  /\ pages' = InsertPage(ErrorPageRow(url))
  /\ issues' = IF crawl_exists THEN Append(issues, CrawlErrorIssue(url)) ELSE issues
  /\ last' = [kind |-> "fetch_error", url |-> url]
  /\ failed' = failed \cup {[url |-> url, phase |-> "fetch"]}

CrawlFetchError ==
  /\ Fresh({"error"})
  /\ FetchError(Head(url_queue).url)
  /\ UNCHANGED << pc, site, crawl, crawl_exists, crawl_status, pages_crawled,
                  external_domains_crawled, crawl_deleted, nav_scores, links,
                  stop_reason, finalized, studyVars, runtime_exceeded >>

\* variant that does not count the URL
NoLinksUncounted(item, pg) ==
  /\ url_queue' = Tail(url_queue)
  /\ pages' = InsertPage(
       IF pg.kind = "nonhtml"
       THEN PageRow(item.url, 200, "other", item.nav_score, item.depth, FALSE)
       ELSE PageRow(item.url, 404, "html", item.nav_score, item.depth, pg.h1))
  /\ pages_crawled' = pages_crawled
  /\ last' = [kind |-> pg.kind, url |-> item.url]

\* a non-HTML response (soup is None) or an HTML response with a status
\* other than 200: the row is saved, nothing is extracted
NoLinks(item, pg) ==
  /\ url_queue' = Tail(url_queue)
  /\ pages' = InsertPage(
       IF pg.kind = "nonhtml"
       THEN PageRow(item.url, 200, "other", item.nav_score, item.depth, FALSE)
       ELSE PageRow(item.url, 404, "html", item.nav_score, item.depth, pg.h1))
  /\ pages_crawled' = pages_crawled + 1
  /\ last' = [kind |-> pg.kind, url |-> item.url]

CrawlNoLinks ==
  /\ Fresh({"nonhtml", "notfound"})
  /\ NoLinks(Head(url_queue), PageOf(site, Head(url_queue).url))
  /\ UNCHANGED << pc, site, crawl, crawl_exists, crawl_status,
                  external_domains_crawled, crawl_deleted, nav_scores, links,
                  issues, stop_reason, failed, finalized, studyVars, runtime_exceeded >>

\* the state of _extract_and_process_links before the first anchor
LinkAcc ==
  [queue |-> Tail(url_queue), nav |-> << >>, save |-> << >>, check |-> << >>,
   ext |-> external_domains_crawled, raised |-> FALSE]

\* the effects of _extract_and_process_links; an exception raised in it is
\* caught by the loop, which only logs it
LinksProcessed(url, acc) ==
  /\ external_domains_crawled' = acc.ext
  /\ IF acc.raised
     THEN /\ url_queue' = acc.queue
          /\ last' = [kind |-> "process_error", url |-> url]
          /\ failed' = failed \cup {[url |-> url, phase |-> "links"]}
          /\ UNCHANGED << links, crawl_deleted, pages_crawled >>
     ELSE /\ url_queue' = acc.nav \o acc.queue
          /\ links' = IF PageStored(url)
                      THEN links \o acc.save \o CheckedLinks(site, acc.check)
                      ELSE links
          /\ crawl_deleted' =
               (crawl_deleted \/ (~PageStored(url) /\ acc.save \o acc.check # << >>))
          /\ pages_crawled' = pages_crawled + 1
          /\ last' = [kind |-> "ok", url |-> url]
          /\ UNCHANGED failed

\* an HTML page with status 200: row saved, then links processed
HtmlPage(item, pg) ==
  /\ pages' = InsertPage(PageRow(item.url, 200, "html", item.nav_score,
                                 item.depth, pg.h1))
  /\ LinksProcessed(item.url,
       ProcessLinks(pg.links, item.url, item.depth, nav_scores, crawl, LinkAcc))

CrawlHtml ==
  /\ Fresh({"html"})
  /\ HtmlPage(Head(url_queue), PageOf(site, Head(url_queue).url))
  /\ UNCHANGED << pc, site, crawl, crawl_exists, crawl_status, nav_scores,
                  issues, stop_reason, finalized, studyVars, runtime_exceeded >>

\* the while condition is false
LoopExit ==
  /\ pc = "crawl" /\ ~LoopCond
  /\ pc' = "finalize"
  /\ stop_reason' = IF url_queue = << >> THEN "exhausted" ELSE "budget"
  /\ UNCHANGED << site, crawl, crawl_exists, crawl_status, url_queue,
                  visited_urls, pages_crawled, external_domains_crawled,
                  crawl_deleted, nav_scores, pages, links, issues, last, failed,
                  finalized, studyVars, clockVars >>

(***************************************************************************)
(* Crawler.start after _crawl, and the rest of crawl_site                  *)
(***************************************************************************)
Finalize ==
  /\ pc = "finalize"
  /\ pages' = IF crawl_deleted THEN pages ELSE _finalize_primary_pages(pages, crawl)
  /\ finalized' = ~crawl_deleted
  /\ pc' = "status"
  /\ UNCHANGED << site, crawl, crawl_exists, crawl_status, url_queue,
                  visited_urls, pages_crawled, external_domains_crawled,
                  crawl_deleted, nav_scores, links, issues, last, stop_reason,
                  failed, studyVars, clockVars >>

\* variant that reports every crawl as completed
FinalStatusCompleted(n) == "completed"

\* the final update of the crawls row
FinalStatus(n) == IF n = 0 THEN "failed" ELSE "completed"

WriteFinalStatus ==
  /\ pc = "status"
  /\ crawl_status' = IF crawl_exists THEN FinalStatus(pages_crawled) ELSE crawl_status
  /\ pc' = IF pages_crawled > 0 THEN "detect" ELSE "done"
  /\ UNCHANGED << site, crawl, crawl_exists, url_queue, visited_urls,
                  pages_crawled, external_domains_crawled, crawl_deleted,
                  nav_scores, pages, links, issues, last, stop_reason, failed,
                  finalized, studyVars, clockVars >>

DetectIssues ==
  /\ pc = "detect"
  /\ \E fetched \in FetchOrders(pages) :
       issues' = detect_and_store_issues(issues, fetched, links, crawl_exists)
  /\ pc' = "done"
  /\ UNCHANGED << site, crawl, crawl_exists, crawl_status, url_queue,
                  visited_urls, pages_crawled, external_domains_crawled,
                  crawl_deleted, nav_scores, pages, links, last, stop_reason,
                  failed, finalized, studyVars, clockVars >>

(***************************************************************************)
(* delete_crawl (API): the child rows and the crawl row are removed        *)
(***************************************************************************)
DeleteCrawl ==
  /\ crawl_exists
  /\ pc # "done"
  /\ crawl_exists' = FALSE
  /\ crawl_status' = "none"
  /\ pages' = << >>
  /\ links' = << >>
  /\ issues' = << >>
  /\ UNCHANGED << pc, site, crawl, url_queue, visited_urls, pages_crawled,
                  external_domains_crawled, crawl_deleted, nav_scores, last,
                  stop_reason, failed, finalized, studyVars, clockVars >>

(***************************************************************************)
(* Writers of crawls.status besides the worker                             *)
(***************************************************************************)
\* the statuses a crawl keeps once the work on it has ended
TerminalStatus == {"completed", "failed", "stopped"}

\* what is left unchanged by a write of crawls.status from outside the worker
StatusWriteOnly ==
  UNCHANGED << pc, site, crawl, crawl_exists, url_queue, visited_urls,
               pages_crawled, external_domains_crawled, crawl_deleted,
               nav_scores, pages, links, issues, last, stop_reason, failed,
               finalized, studyVars, clockVars >>

\* stop_crawl (API): the row created by create_crawl has no task_id, so no
\* task is revoked and the worker goes on
stop_crawl ==
  /\ crawl_exists
  /\ crawl_status \in {"running", "queued", "pending"}
  /\ crawl_status' = "stopped"
  /\ StatusWriteOnly

\* mark_crawl_failed (API)
mark_crawl_failed ==
  /\ crawl_exists
  /\ crawl_status \notin {"completed", "failed", "cancelled"}
  /\ crawl_status' = "failed"
  /\ StatusWriteOnly

\* check_and_fix_stale_crawls: the row has had no update for longer than
\* the timeout of its status
check_and_fix_stale_crawls ==
  /\ crawl_exists
  /\ crawl_status \in {"running", "queued", "pending"}
  /\ crawl_status' = "failed"
  /\ StatusWriteOnly

Next ==
  \/ WorkerFetchCrawl
  \/ Start
  \/ TimePasses
  \/ LoopTimeout
  \/ LoopNoticeDeleted
  \/ LoopSkipVisited
  \/ CrawlFetchError
  \/ CrawlNoLinks
  \/ CrawlHtml
  \/ LoopExit
  \/ Finalize
  \/ WriteFinalStatus
  \/ DetectIssues
  \/ DeleteCrawl
  \/ stop_crawl
  \/ check_and_fix_stale_crawls
  \/ mark_crawl_failed

Spec == Init /\ [][Next]_vars

(***************************************************************************)
(* Study of Crawler._normalize_url as a function: a URL u is drawn in      *)
(* components, a variant v of it is built by edits that the normaliser is  *)
(* meant to ignore, and the function is applied to both, once and twice.   *)
(***************************************************************************)
\* str.upper() on one character
UpperChar(c) ==
  CASE c = "a" -> "A" [] c = "b" -> "B" [] c = "c" -> "C" [] c = "d" -> "D"
    [] c = "e" -> "E" [] c = "f" -> "F" [] c = "g" -> "G" [] c = "h" -> "H"
    [] c = "i" -> "I" [] c = "j" -> "J" [] c = "k" -> "K" [] c = "l" -> "L"
    [] c = "m" -> "M" [] c = "n" -> "N" [] c = "o" -> "O" [] c = "p" -> "P"
    [] c = "q" -> "Q" [] c = "r" -> "R" [] c = "s" -> "S" [] c = "t" -> "T"
    [] c = "u" -> "U" [] c = "v" -> "V" [] c = "w" -> "W" [] c = "x" -> "X"
    [] c = "y" -> "Y" [] c = "z" -> "Z" [] OTHER -> c

Upper(s) == [i \in 1..Len(s) |-> UpperChar(s[i])]

\* the URLs drawn: schemes with and without a default port of their own,
\* paths that are empty or end in no, one or two slashes, queries of
\* ordinary parameters
NormSchemes == { <<"h","t","t","p">>, <<"h","t","t","p","s">> }
NormHosts   == { <<"x",".","i","o">> }
NormPaths   == { << >>, <<"/">>, <<"/","a">>, <<"/","a","/">>, <<"/","a","/","/">> }
NormQueries == { << >>, << <<"a","=","1">> >>, << <<"b","=","2">>, <<"a","=","1">> >> }

\* tracking parameters a variant may carry: names of the normaliser's list,
\* another utm_ name, and a listed name without a value
ListedTracking == { <<"u","t","m","_","s","o","u","r","c","e","=","x">>, <<"f","b","c","l","i","d","=","1">>, <<"g","c","l","i","d","=","2">> }
OtherUtm       == { <<"u","t","m","_","i","d","=","5">> }
BareTracking   == { <<"g","c","l","i","d">> }

\* how many tracking parameters a variant gets at most
MaxTrackingParams == 1

\* the text of a URL given in components
QueryText(params) == IF params = << >> THEN << >> ELSE <<"?">> \o Join(params, "&")

FragmentText(fragment) == IF fragment = << >> THEN << >> ELSE <<"#">> \o fragment

UrlText(parts) ==
  parts.scheme \o <<":","/","/">> \o parts.host \o parts.port \o parts.path
    \o QueryText(parts.params) \o FragmentText(parts.fragment)

\* the default port of a scheme, as written in a netloc
DefaultPort(scheme) == IF Lower(scheme) = <<"h","t","t","p">> THEN <<":","8","0">> ELSE <<":","4","4","3">>

\* s with x inserted after its first i elements
InsertAt(s, i, x) == SubSeq(s, 1, i) \o <<x>> \o SubSeq(s, i + 1, Len(s))

\* the kind of edit a tracking parameter is
TrackingKind(p) ==
  IF p \in ListedTracking THEN "tracking"
  ELSE IF p \in OtherUtm THEN "utm_other" ELSE "bare"

\* the crawl is idle during the study
DefaultPolicy ==
  [ url |-> U_home, max_pages |-> MaxPagesBound,
    internal_depth |-> MaxDepthBound, follow_external_links |-> FALSE,
    external_depth |-> default_external_depth, respect_robots_txt |-> TRUE,
    max_external_links |-> MaxExternalBound ]

NormInit ==
  /\ pc = "queued"
  /\ site = 1
  /\ crawl = DefaultPolicy
  /\ crawl_exists = TRUE
  /\ crawl_status = "queued"
  /\ CrawlerInit
  /\ pages = << >>
  /\ links = << >>
  /\ issues = << >>
  /\ last = NoLast
  /\ stop_reason = "none"
  /\ failed = {}
  /\ finalized = FALSE
  /\ runtime_exceeded = FALSE
  /\ check_due = FALSE
  /\ soup = NoSoup
  /\ seo_metadata = << >>
  /\ \E s \in NormSchemes, h \in NormHosts, p \in NormPaths, q \in NormQueries :
       nu = [NoUrl EXCEPT !.parts = [scheme |-> s, host |-> h, port |-> << >>,
                                     path |-> p, params |-> q,
                                     fragment |-> << >>]]
  /\ nv = nu
  /\ IdleOperations

\* an edit is made before the function is applied
Editable == nv.norm = NoText

UpperCaseEdit ==
  /\ Editable
  /\ \E f \in {"scheme", "host", "path"} :
       /\ Upper(nv.parts[f]) # nv.parts[f]
       /\ nv' = [nv EXCEPT !.parts[f] = Upper(@), !.edits = @ \cup {"case"}]
  /\ UNCHANGED << crawlVars, nu >>

DefaultPortEdit ==
  /\ Editable
  /\ nv.parts.port = << >>
  /\ nv' = [nv EXCEPT !.parts.port = DefaultPort(nv.parts.scheme),
                      !.edits = @ \cup {"port"}]
  /\ UNCHANGED << crawlVars, nu >>

FragmentEdit ==
  /\ Editable
  /\ nv.parts.fragment = << >>
  /\ nv' = [nv EXCEPT !.parts.fragment = <<"t","o","p">>, !.edits = @ \cup {"fragment"}]
  /\ UNCHANGED << crawlVars, nu >>

TrackingEdit ==
  /\ Editable
  /\ nv.added < MaxTrackingParams
  /\ \E p \in ListedTracking \cup OtherUtm \cup BareTracking,
        i \in 0..Len(nv.parts.params) :
       nv' = [nv EXCEPT !.parts.params = InsertAt(@, i, p),
                        !.edits = @ \cup {TrackingKind(p)},
                        !.added = @ + 1]
  /\ UNCHANGED << crawlVars, nu >>

\* r with the function applied to its text, and again to the result
NormalizedTwice(r, once) == [r EXCEPT !.norm = once, !.again = _normalize_url(once)]

Normalized(r) == NormalizedTwice(r, _normalize_url(UrlText(r.parts)))

Normalize ==
  /\ Editable
  /\ nu' = Normalized(nu)
  /\ nv' = Normalized(nv)
  /\ UNCHANGED crawlVars

NormNext ==
  \/ UpperCaseEdit
  \/ DefaultPortEdit
  \/ FragmentEdit
  \/ TrackingEdit
  \/ Normalize

SpecNorm == NormInit /\ [][NormNext]_vars

(***************************************************************************)
(* Properties                                                              *)
(***************************************************************************)
\* the host of a URL
HostOf(url) == urlparse(url).netloc

\* the hosts other than the seed's from which the loop has fetched a URL
ExternalFetched == {HostOf(u) : u \in visited_urls} \ {Domain(crawl)}

\* a row written by _save_page_to_db, not the error row of a failed URL
IsFetchedRow(row) == row.content_type # "error"

\* the number of fetched rows of the pages table
CountFetched == Cardinality({i \in 1..Len(pages) : IsFetchedRow(pages[i])})

\* the number of "Crawl Error" rows of the issues table
CountCrawlErrors ==
  Cardinality({i \in 1..Len(issues) : issues[i].type = "Crawl Error"})

\* the loop has ended by itself and the crawl row was never deleted
LoopEndedUndisturbed ==
  /\ stop_reason \in {"exhausted", "budget"}
  /\ crawl_exists

\* the pages of site s that answer 200 and that links on the seed's host
\* lead to from the pages in from
Successors(s, cr, from) ==
  {l \in UNION {Range(PageOf(s, u).links) : u \in from} :
     /\ HostOf(l) = Domain(cr)
     /\ PageOf(s, l).kind \in {"html", "nonhtml"}}

RECURSIVE ReachWithin(_, _, _, _)
ReachWithin(s, cr, seen, d) ==
  IF d = 0 THEN seen
  ELSE ReachWithin(s, cr, seen \cup Successors(s, cr, seen), d - 1)

\* the pages reachable from the seed within internal_depth links, one per
\* normalised URL
ReachablePages(s, cr) ==
  {_normalize_url(u) :
     u \in ReachWithin(s, cr, {u \in {cr.url} : PageOf(s, u).kind = "html"},
                       cr.internal_depth)}

\* C1: no two rows of the pages table (fetched pages or error rows) have
\* the same normalised URL; every row's normalised URL was marked visited,
\* and there are at most as many rows as visited URLs.
C1_OnePagePerNormalizedUrl ==
  /\ \A i, j \in 1..Len(pages) :
       i # j => _normalize_url(pages[i].url) # _normalize_url(pages[j].url)
  /\ \A i \in 1..Len(pages) : _normalize_url(pages[i].url) \in visited_urls
  /\ Len(pages) <= Cardinality(visited_urls)

\* a second spelling of a fetched page was popped and skipped
C1_Witness ==
  /\ last = [kind |-> "skip", url |-> U_aboutS]
  /\ \E i \in 1..Len(pages) : pages[i].url = U_about
  /\ Len(pages) >= 2

\* C2: pages_crawled never exceeds max_pages, grows by at most one in a
\* step, and once it has reached max_pages nothing is popped or visited.
C2_PageBudget ==
  [][ /\ pages_crawled <= crawl.max_pages
      /\ pages_crawled' <= crawl.max_pages
      /\ pages_crawled' - pages_crawled \in {0, 1}
      /\ pages_crawled >= crawl.max_pages
           => url_queue' = url_queue /\ visited_urls' = visited_urls ]_vars

\* the loop stopped on the budget with work left in the queue
C2_Witness ==
  /\ pc = "finalize"
  /\ stop_reason = "budget"
  /\ pages_crawled = crawl.max_pages
  /\ url_queue # << >>

\* C3: the number of distinct hosts other than the seed's from which a URL
\* was fetched is at most the configured number of external domains.
C3_ExternalBudget == Cardinality(ExternalFetched) <= crawl.max_external_links

\* C4: a step in which the processing of a URL raised, with the crawl row
\* in place, appends one error row (status 0) and one "Crawl Error" issue
\* of severity high for that URL, leaves pages_crawled alone and stays in
\* the loop.
C4_ErrorRecorded ==
  [][ (failed' # failed /\ crawl_exists)
        => /\ Len(pages') = Len(pages) + 1
           /\ pages'[Len(pages')].url = last'.url
           /\ pages'[Len(pages')].status_code = 0
           /\ Len(issues') = Len(issues) + 1
           /\ issues'[Len(issues')] = CrawlErrorIssue(last'.url)
           /\ pages_crawled' = pages_crawled
           /\ pc' = "crawl" ]_vars

\* C5: when the whole job is done and exactly one URL failed, in its fetch,
\* the failed URL is not counted (pages_crawled is the number of fetched
\* rows) and the issues table holds exactly one "Crawl Error".
C5_OneCrawlError ==
  ( /\ pc = "done"
    /\ LoopEndedUndisturbed
    /\ Cardinality(failed) = 1
    /\ \A f \in failed : f.phase = "fetch" )
  => /\ pages_crawled = CountFetched
     /\ CountCrawlErrors = 1

\* C6: when the loop has ended by itself, nothing raised and the site has
\* more than max_pages pages reachable within internal_depth, pages_crawled
\* is exactly max_pages.
C6_ExactBudget ==
  ( /\ pc = "done"
    /\ LoopEndedUndisturbed
    /\ failed = {}
    /\ Cardinality(ReachablePages(site, crawl)) > crawl.max_pages )
  => pages_crawled = crawl.max_pages

\* C7: a URL fetched from a host other than the seed's was fetched with
\* follow_external_links set, from a domain that is not blacklisted, at a
\* depth within external_depth.
C7_ExternalPolicy ==
  \A u \in visited_urls :
    HostOf(u) # Domain(crawl)
      => /\ crawl.follow_external_links
         /\ ~is_domain_blacklisted(u)
         /\ \A i \in 1..Len(pages) :
              _normalize_url(pages[i].url) = u
                => pages[i].depth <= crawl.external_depth

\* C8: the normaliser applied to its own result returns that result, for
\* the URL drawn and for its variant.
C8_Idempotent ==
  /\ nu.norm # NoText => nu.again = nu.norm
  /\ nv.norm # NoText => nv.again = nv.norm

\* the query string of a URL text
QueryOf(text) == urlparse(text).query

\* the name of a query parameter: the text before "=", or all of it
ParamName(param) == Lower(CutAt(param, "=").head)

\* a parameter named utm_*, fbclid or gclid
IsNamedTracking(param) ==
  \/ StartsWith(ParamName(param), <<"u","t","m","_">>)
  \/ ParamName(param) \in { <<"f","b","c","l","i","d">>, <<"g","c","l","i","d">> }

\* a parameter name=value whose name is one of the seven listed names
IsListedTracking(param) ==
  /\ Contains(param, <<"=">>)
  /\ ParamName(param) \in tracking_params

\* the parameters of v that are no tracking parameters, joined in order
RemainingNamed(params) ==
  Join(SelectSeq(params, LAMBDA p : ~IsNamedTracking(p)), "&")

RemainingListed(params) ==
  Join(SelectSeq(params, LAMBDA p : ~IsListedTracking(p)), "&")

\* C9 as stated: u and its variant, which differs in case, default port,
\* fragment and parameters named utm_*, fbclid or gclid, normalise to the
\* same text, and the query of the result is the other parameters in order.
C9_Insensitive ==
  nv.norm # NoText
    => /\ nv.norm = nu.norm
       /\ QueryOf(nv.norm) = RemainingNamed(nv.parts.params)

\* C9, amended: the same for a variant whose tracking parameters have the
\* form name=value with a name of the normaliser's list (utm_source,
\* utm_medium, utm_campaign, utm_term, utm_content, fbclid, gclid); the
\* query of any result is the parameters not of that form, in order.
C9_InsensitiveListed ==
  nv.norm # NoText
    => /\ nv.edits \subseteq {"case", "port", "fragment", "tracking"}
            => nv.norm = nu.norm
       /\ QueryOf(nv.norm) = RemainingListed(nv.parts.params)

\* a variant with every ignored difference, of a URL with parameters
C9_Witness ==
  /\ nv.norm # NoText
  /\ nv.edits = {"case", "port", "fragment", "tracking"}
  /\ Len(nu.parts.params) = 2
  /\ nv.parts # nu.parts
  /\ nv.norm = nu.norm

\* the depth bonus is 10, 8, 4 at depths 0, 1, 2 and 0 beyond
DepthBonusTable ==
  /\ depth_bonuses(0) = 10
  /\ depth_bonuses(1) = 8
  /\ depth_bonuses(2) = 4
  /\ \A d \in 3..(MaxDepthBound + 3) : depth_bonuses(d) = 0

\* every score computed for a queue item, a link or a fetched page is >= 0
ScoresNonNegative ==
  /\ \A i \in 1..Len(url_queue) : url_queue[i].nav_score >= 0
  /\ \A i \in 1..Len(links) : links[i].nav_score >= 0
  /\ \A i \in 1..Len(pages) : IsFetchedRow(pages[i]) => pages[i].nav_score >= 0

\* the loop starts with the seed at the head of the queue, scored >= 10
SeedQueued ==
  (pc = "crawl" /\ visited_urls = {})
    => /\ url_queue # << >>
       /\ Head(url_queue).url = crawl.url
       /\ Head(url_queue).depth = 0
       /\ Head(url_queue).nav_score >= 10

\* C10 as stated: scores are >= 0, the depth bonus is 10/8/4/0, the seed is
\* queued with a score >= 10 and every row of the seed URL has one.
C10_SeedScore ==
  /\ DepthBonusTable
  /\ ScoresNonNegative
  /\ SeedQueued
  /\ \A i \in 1..Len(pages) : pages[i].url = crawl.url => pages[i].nav_score >= 10

\* C10, amended: as above, for the row of a seed whose fetch succeeded (the
\* error row of a seed whose fetch raised is written without a score).
C10_SeedScoreFetched ==
  /\ DepthBonusTable
  /\ ScoresNonNegative
  /\ SeedQueued
  /\ \A i \in 1..Len(pages) :
       (pages[i].url = crawl.url /\ IsFetchedRow(pages[i]))
         => pages[i].nav_score >= 10

\* the seed's row carries the boost, and a link's score was floored at 0
C10_Witness ==
  /\ \E i \in 1..Len(pages) :
       /\ pages[i].url = crawl.url
       /\ pages[i].nav_score = 10
       /\ RawNavScore(nav_scores, crawl.url, 0) < 10
  /\ \E k \in 1..Len(links) :
       /\ links[k].nav_score = 0
       /\ RawNavScore(nav_scores, links[k].target_url, links[k].depth) < 0

(***************************************************************************)
(* The order of the queue                                                  *)
(***************************************************************************)
NavItems(q) == SelectSeq(q, LAMBDA it : it.is_navigation)

PlainItems(q) == SelectSeq(q, LAMBDA it : ~it.is_navigation)

IsPrefix(a, b) == Len(a) <= Len(b) /\ SubSeq(b, 1, Len(a)) = a

IsSuffix(a, b) ==
  Len(a) <= Len(b) /\ SubSeq(b, Len(b) - Len(a) + 1, Len(b)) = a

\* no non-navigation item stands before a navigation item
NavigationFirst(q) ==
  \A i, j \in 1..Len(q) : i < j /\ q[j].is_navigation => q[i].is_navigation

\* an iteration of the loop has popped the head and changed the queue
QueueStep == pc = "crawl" /\ url_queue # << >> /\ url_queue' # url_queue

\* C11 as stated: navigation items stand before the non-navigation items,
\* and within each of the two tiers the items are consumed first in, first
\* out: the items waiting in a tier stay ahead of the items that join it.
C11_FifoTiers ==
  [][ /\ NavigationFirst(url_queue')
      /\ QueueStep =>
           /\ IsPrefix(NavItems(Tail(url_queue)), NavItems(url_queue'))
           /\ IsPrefix(PlainItems(Tail(url_queue)), PlainItems(url_queue')) ]_vars

\* C11, amended: navigation items stand before the non-navigation items in
\* every queue; the non-navigation items are consumed first in, first out;
\* the navigation links of a page are placed, in page order, ahead of the
\* navigation items that are still waiting.
C11_NavigationFirst ==
  [][ /\ NavigationFirst(url_queue')
      /\ QueueStep =>
           /\ IsSuffix(NavItems(Tail(url_queue)), NavItems(url_queue'))
           /\ IsPrefix(PlainItems(Tail(url_queue)), PlainItems(url_queue')) ]_vars

\* a navigation link found at depth 2 stands before one found at depth 1,
\* and a non-navigation item waits behind both
C11_Witness ==
  /\ pc = "crawl"
  /\ \E i, j, k \in 1..Len(url_queue) :
       /\ i < j /\ j < k
       /\ url_queue[i].is_navigation /\ url_queue[i].depth = 2
       /\ url_queue[j].is_navigation /\ url_queue[j].depth = 1
       /\ ~url_queue[k].is_navigation

(***************************************************************************)
(* Deletion of the crawl while the loop runs                               *)
(***************************************************************************)
\* the iteration that begins finds the existence check due and the row gone
DeletionDue == pc = "crawl" /\ LoopCond /\ check_due /\ ~crawl_exists

\* a step of the worker, as opposed to one of the clock or of the API
WorkerStep ==
  pc' # pc \/ url_queue' # url_queue \/ visited_urls' # visited_urls

\* the loop ends at the existence check: nothing is popped or fetched
EndsAsDeleted ==
  /\ crawl_deleted' /\ stop_reason' = "deleted" /\ pc' = "finalize"
  /\ url_queue' = url_queue /\ visited_urls' = visited_urls
  /\ pages' = pages /\ links' = links /\ issues' = issues

C13_ForeignKeyStops ==
  [][ pc = "crawl" /\ crawl_deleted
        => url_queue' = url_queue /\ visited_urls' = visited_urls ]_vars

(***************************************************************************)
(* Study of Crawler._finalize_primary_pages over tables of pages           *)
(***************************************************************************)
MaxTableBound == 17

\* the worker and the crawler are idle during a study
IdleCrawl ==
  /\ site = 1
  /\ crawl = DefaultPolicy
  /\ crawl_exists = TRUE
  /\ crawl_status = "queued"
  /\ CrawlerInit
  /\ links = << >>
  /\ issues = << >>
  /\ last = NoLast
  /\ stop_reason = "none"
  /\ failed = {}
  /\ finalized = FALSE
  /\ runtime_exceeded = FALSE
  /\ check_due = FALSE

RowLetters == <<"a","b","c","d","e","f","g","h","i","j","k","l","m","n","o","p","q","r","s","t","u","v","w","x","y","z">>

\* the URL of row i: the homepage first; in a deep table also deeper
\* paths, in a mixed table also legal pages and pages of another host
RowUrl(i, shape) ==
  IF i = 1 /\ shape # "nohome" THEN U_home
  ELSE IF shape = "mixed" /\ i % 5 = 0
  THEN <<"h","t","t","p",":","/","/","s",".","i","o","/","t","e","r","m","s","/">> \o <<RowLetters[i]>>
  ELSE IF shape = "mixed" /\ i % 7 = 0
  THEN <<"h","t","t","p",":","/","/","e",".","i","o","/">> \o <<RowLetters[i]>>
  ELSE IF shape \in {"mixed", "deep"} /\ i % 3 = 0
  THEN <<"h","t","t","p",":","/","/","s",".","i","o","/">> \o <<RowLetters[i], "/", RowLetters[i]>>
  ELSE <<"h","t","t","p",":","/","/","s",".","i","o","/">> \o <<RowLetters[i]>>

RowScore(i, scores) ==
  CASE scores = "high" -> 10
    [] scores = "low" -> 0
    [] scores = "falling" -> 30 - i
    [] OTHER -> IF i % 2 = 0 THEN 12 ELSE 3

\* a stored row; is_primary may be left over from an earlier run
TableRow(i, shape, scores, flag) ==
  [PageRow(RowUrl(i, shape), 200, "html", RowScore(i, scores),
           IF i = 1 THEN 0 ELSE 1, TRUE) EXCEPT !.is_primary = flag]

Table(n, shape, scores, flag, backwards) ==
  [k \in 1..n |->
     TableRow(IF backwards THEN n + 1 - k ELSE k, shape, scores, flag)]

FinalizeInit ==
  /\ pc = "table"
  /\ IdleCrawl
  /\ \E n \in 1..MaxTableBound, shape \in {"plain", "mixed", "nohome", "deep"},
        scores \in {"high", "low", "falling", "uneven"},
        flag \in BOOLEAN, backwards \in BOOLEAN :
       pages = Table(n, shape, scores, flag, backwards)
  /\ soup = NoSoup
  /\ seo_metadata = << >>
  /\ nu = NoUrl
  /\ nv = NoUrl
  /\ IdleOperations

FinalizeTable ==
  /\ pc = "table"
  /\ pages' = _finalize_primary_pages(pages, crawl)
  /\ finalized' = TRUE
  /\ pc' = "finalized"
  /\ UNCHANGED << site, crawl, crawl_exists, crawl_status, url_queue,
                  visited_urls, pages_crawled, external_domains_crawled,
                  crawl_deleted, nav_scores, links, issues, last, stop_reason,
                  failed, studyVars, clockVars >>

\* the finalizer is run once more over the same rows
FinalizeAgain ==
  /\ pc = "finalized"
  /\ pages' = _finalize_primary_pages(pages, crawl)
  /\ pc' = "refinalized"
  /\ UNCHANGED << site, crawl, crawl_exists, crawl_status, url_queue,
                  visited_urls, pages_crawled, external_domains_crawled,
                  crawl_deleted, nav_scores, links, issues, last, stop_reason,
                  failed, finalized, studyVars, clockVars >>

FinalizeNext == FinalizeTable \/ FinalizeAgain

SpecFinalize == FinalizeInit /\ [][FinalizeNext]_vars

PrimaryRows(pgs) == {i \in 1..Len(pgs) : pgs[i].is_primary}

CandidateRows(pgs, cr) ==
  {i \in 1..Len(pgs) : IsCandidate(pgs[i], Len(pgs), cr)}

Min(a, b) == IF a < b THEN a ELSE b

\* the rows marked are candidates, as many as the cap allows, and none of
\* the candidates left out sorts before a marked one
TopMarked(pgs, cr) ==
  /\ PrimaryRows(pgs) \subseteq CandidateRows(pgs, cr)
  /\ Cardinality(PrimaryRows(pgs)) =
       Min(MAX_MAIN_PAGES, Cardinality(CandidateRows(pgs, cr)))
  /\ \A p \in PrimaryRows(pgs), q \in CandidateRows(pgs, cr) \ PrimaryRows(pgs) :
       KeyLE(pgs[p], pgs[q])

\* C14: after Primary-Page Finalization, run once or again over the same
\* pages, at most 15 pages are primary: exactly the top candidates of the
\* sort are marked and every other page is not; the second run changes
\* nothing.
C14_AtMostFifteen ==
  [][ /\ pc' \in {"finalized", "refinalized"} =>
           /\ Cardinality(PrimaryRows(pages')) <= 15
           /\ TopMarked(pages', crawl')
      /\ pc' = "refinalized" => pages' = pages ]_vars

\* more than 15 candidates: 15 are marked after the second run and a
\* candidate is left unmarked
C14_Witness ==
  /\ pc = "refinalized"
  /\ Cardinality(CandidateRows(pages, crawl)) > 15
  /\ Cardinality(PrimaryRows(pages)) = 15
  /\ \E i \in 1..Len(pages) : ~pages[i].is_primary

\* C15: when Primary-Page Finalization has run over a crawl that persisted
\* exactly one page, that page is primary.
C15_SinglePagePrimary ==
  finalized /\ Len(pages) = 1 => pages[1].is_primary

(***************************************************************************)
(* normalize_url_for_comparison and IssueDetector._detect_duplicate_titles *)
(***************************************************************************)
\* variant that keeps the www. prefix
CompareDomainKeepWww(netloc) == Lower(netloc)

\* the domain, lower-cased and without a leading www.
CompareDomain(netloc) ==
  IF StartsWith(Lower(netloc), <<"w","w","w",".">>) THEN Drop(Lower(netloc), 4)
  ELSE Lower(netloc)

\* str.rstrip('/')
RECURSIVE RStripSlash(_)
RStripSlash(path) ==
  IF path # << >> /\ path[Len(path)] = "/"
  THEN RStripSlash(SubSeq(path, 1, Len(path) - 1))
  ELSE path

ComparePath(path) ==
  IF path # <<"/">> /\ EndsWith(path, <<"/">>) THEN RStripSlash(path) ELSE path

\* scheme://domain/path, without query and fragment
CompareForm(parsed) ==
  parsed.scheme \o <<":","/","/">> \o CompareDomain(parsed.netloc)
    \o ComparePath(parsed.path)

normalize_url_for_comparison(url) ==
  IF url = << >> THEN url ELSE CompareForm(urlparse(url))

\* not title or not title.strip()
BlankTitle(title) == \A i \in 1..Len(title) : title[i] = " "

\* title_to_pages as a list of groups in order of first appearance: the
\* title, the normalised URLs seen and the first original URL of each
GroupIndex(groups, title) ==
  IF \E g \in 1..Len(groups) : groups[g].title = title
  THEN CHOOSE g \in 1..Len(groups) : groups[g].title = title
  ELSE 0

AddToGroup(group, normalized, page_url) ==
  IF normalized \in Range(group.keys) THEN group
  ELSE [group EXCEPT !.keys = Append(@, normalized),
                     !.urls = Append(@, page_url)]

GroupedAt(groups, g, title, normalized, page_url) ==
  IF g = 0
  THEN Append(groups, [title |-> title, keys |-> <<normalized>>,
                       urls |-> <<page_url>>])
  ELSE [groups EXCEPT ![g] = AddToGroup(@, normalized, page_url)]

GroupMeta(groups, row) ==
  IF BlankTitle(row.title) THEN groups
  ELSE GroupedAt(groups, GroupIndex(groups, row.title), row.title,
                 normalize_url_for_comparison(row.page_url), row.page_url)

RECURSIVE title_to_pages(_, _)
title_to_pages(meta, groups) ==
  IF meta = << >> THEN groups
  ELSE title_to_pages(Tail(meta), GroupMeta(groups, Head(meta)))

\* the issue of a title used on several pages; count is the number given
\* in the message, context the first three original URLs
DuplicateTitleIssue(group) ==
  [type |-> "SEO - Duplicate Title Tag", severity |-> "high",
   pointer |-> group.title, count |-> Len(group.keys),
   context |-> SubSeq(group.urls, 1, IF Len(group.urls) < 3 THEN Len(group.urls) ELSE 3)]

DuplicateGroups(groups) == SelectSeq(groups, LAMBDA g : Len(g.keys) > 1)

DuplicateIssues(dups) ==
  [i \in 1..Len(dups) |-> DuplicateTitleIssue(dups[i])]

_detect_duplicate_titles(meta) ==
  DuplicateIssues(DuplicateGroups(title_to_pages(meta, << >>)))

(***************************************************************************)
(* Study of the duplicate-title detection over seo_metadata tables         *)
(***************************************************************************)
MaxMetaBound == 3

\* page URLs in components: with or without www., path /a or /b, with or
\* without a trailing slash, with or without a query string
MetaUrls ==
  { [www |-> FALSE, path |-> "a", slash |-> FALSE, query |-> FALSE],
    [www |-> TRUE,  path |-> "a", slash |-> FALSE, query |-> FALSE],
    [www |-> FALSE, path |-> "a", slash |-> TRUE,  query |-> FALSE],
    [www |-> FALSE, path |-> "b", slash |-> FALSE, query |-> FALSE],
    [www |-> FALSE, path |-> "a", slash |-> FALSE, query |-> TRUE],
    [www |-> TRUE,  path |-> "b", slash |-> TRUE,  query |-> FALSE] }

MetaText(u) ==
  <<"h","t","t","p","s",":","/","/">> \o (IF u.www THEN <<"w","w","w",".">> ELSE << >>) \o <<"x",".","c","o","m","/">>
    \o <<u.path>> \o (IF u.slash THEN <<"/">> ELSE << >>)
    \o (IF u.query THEN <<"?","p","=","2">> ELSE << >>)

MetaTitles == { <<"F","o","o">>, <<"B","a","r">>, <<" ">> }

MetaRows == [u : MetaUrls, title : MetaTitles]

\* tables of one row per page URL
MetaTables ==
  UNION { {t \in [1..n -> MetaRows] :
             \A i, j \in 1..n : i # j => t[i].u # t[j].u} : n \in 1..MaxMetaBound }

SeoRows(t) ==
  [i \in 1..Len(t) |-> [page_url |-> MetaText(t[i].u), title |-> t[i].title]]

DuplicatesInit ==
  /\ pc = "meta"
  /\ IdleCrawl
  /\ pages = << >>
  /\ soup = NoSoup
  /\ \E t \in MetaTables : seo_metadata = SeoRows(t)
  /\ nu = NoUrl
  /\ nv = NoUrl
  /\ IdleOperations

DetectDuplicates ==
  /\ pc = "meta"
  /\ issues' = _detect_duplicate_titles(seo_metadata)
  /\ pc' = "detected"
  /\ UNCHANGED << site, crawl, crawl_exists, crawl_status, url_queue,
                  visited_urls, pages_crawled, external_domains_crawled,
                  crawl_deleted, nav_scores, pages, links, last, stop_reason,
                  failed, finalized, studyVars, clockVars >>

DuplicatesNext == DetectDuplicates

SpecDuplicates == DuplicatesInit /\ [][DuplicatesNext]_vars

\* the components of a page URL of the study
UrlOf(text) == CHOOSE u \in MetaUrls : MetaText(u) = text

RowsTitled(meta, title) == {i \in 1..Len(meta) : meta[i].title = title}

\* the pages of a title, told apart without www. and trailing slash
PagesByVariant(meta, title) ==
  { <<UrlOf(meta[i].page_url).path, UrlOf(meta[i].page_url).query>> :
      i \in RowsTitled(meta, title) }

\* the pages of a title, told apart by path alone
PagesByPath(meta, title) ==
  { UrlOf(meta[i].page_url).path : i \in RowsTitled(meta, title) }

IssuesOfTitle(iss, title) == {i \in 1..Len(iss) : iss[i].pointer = title}

\* a title used on k pages has one issue with count k when k >= 2, else none
ReportedOnce(iss, title, k) ==
  IF k >= 2
  THEN /\ Cardinality(IssuesOfTitle(iss, title)) = 1
       /\ \A i \in IssuesOfTitle(iss, title) :
            iss[i].count = k /\ iss[i].type = "SEO - Duplicate Title Tag"
  ELSE IssuesOfTitle(iss, title) = {}

Sel(css, score) == [css |-> css, score |-> score]

SELECTORS ==
  << Sel(<<"nav">>, 10), Sel(<<"[role=navigation]">>, 10),
     Sel(<<"header">>, 8), Sel(<<".header">>, 8),
     Sel(<<".navbar">>, 9), Sel(<<".nav">>, 9), Sel(<<".menu">>, 8),
     Sel(<<".main-menu">>, 9), Sel(<<".main-nav">>, 9),
     Sel(<<".primary-nav">>, 9), Sel(<<".site-nav">>, 9),
     Sel(<<".top-nav">>, 8), Sel(<<".navigation">>, 8),
     Sel(<<".sidebar">>, 6), Sel(<<".side-nav">>, 6),
     Sel(<<"aside", "nav">>, 6),
     Sel(<<"footer">>, 5), Sel(<<".footer">>, 5),
     Sel(<<".breadcrumb">>, 7), Sel(<<".breadcrumbs">>, 7),
     Sel(<<"[aria-label=breadcrumb]">>, 7) >>

EXCLUDE_PATTERNS ==
  << P("lit", <<"/","t","a","g","/">>), P("lit", <<"/","t","a","g","s","/">>), P("lit", <<"/","c","a","t","e","g","o","r","y","/">>),
     P("lit", <<"/","a","u","t","h","o","r","/">>), P("litdigit", <<"/","p","a","g","e","/">>), P("date", << >>),
     P("lit", <<"?">>), P("lit", <<"#">>), P("lit", <<"m","a","i","l","t","o",":">>),
     P("lit", <<"t","e","l",":">>), P("lit", <<"j","a","v","a","s","c","r","i","p","t",":">>) >>

PRIMARY_PAGE_PATTERNS ==
  << P("exact", <<"/">>), P("prefix", <<"/","a","b","o","u","t">>), P("prefix", <<"/","c","o","n","t","a","c","t">>),
     P("prefix", <<"/","s","e","r","v","i","c","e","s">>), P("prefix", <<"/","p","r","o","d","u","c","t","s">>),
     P("prefix", <<"/","p","r","i","c","i","n","g">>), P("prefix", <<"/","f","e","a","t","u","r","e","s">>),
     P("prefix", <<"/","s","o","l","u","t","i","o","n","s">>), P("exact", <<"/","b","l","o","g">>), P("exact", <<"/","n","e","w","s">>),
     P("prefix", <<"/","t","e","a","m">>), P("prefix", <<"/","c","a","r","e","e","r","s">>), P("prefix", <<"/","f","a","q">>),
     P("prefix", <<"/","h","e","l","p">>), P("prefix", <<"/","s","u","p","p","o","r","t">>), P("exact", <<"/","d","o","c","s">>),
     P("exact", <<"/","d","o","c","u","m","e","n","t","a","t","i","o","n">>) >>

\* the descendant combinator: the ancestors of the anchor, outermost first,
\* hold the simple selectors of the chain in this order
RECURSIVE ChainMatches(_, _)
ChainMatches(css, ancestors) ==
  IF css = << >> THEN TRUE
  ELSE \E j \in 1..Len(ancestors) :
         /\ css[Len(css)] \in ancestors[j]
         /\ ChainMatches(SubSeq(css, 1, Len(css) - 1), SubSeq(ancestors, 1, j - 1))

\* soup.select(css): the anchors that match, each once, in document order
Select(doc, css) == SelectSeq(doc, LAMBDA a : ChainMatches(css, a.ancestors))

\* urljoin(base_url, href) for an absolute http(s) URL, a root-relative path
\* and a path relative to the homepage
urljoin(base_url, href) ==
  IF StartsWith(href, <<"h","t","t","p",":","/","/">>) \/ StartsWith(href, <<"h","t","t","p","s",":","/","/">>) THEN href
  ELSE IF StartsWith(href, <<"/">>)
  THEN urlparse(base_url).scheme \o <<":","/","/">> \o urlparse(base_url).netloc \o href
  ELSE urlparse(base_url).scheme \o <<":","/","/">> \o urlparse(base_url).netloc
         \o <<"/">> \o href

\* Python None where a URL is expected
NoHref == << >>

NavSkipped(href) ==
  \/ StartsWith(href, <<"m","a","i","l","t","o",":">>) \/ StartsWith(href, <<"t","e","l",":">>)
  \/ StartsWith(href, <<"j","a","v","a","s","c","r","i","p","t",":">>) \/ StartsWith(href, <<"#">>)

\* scheme://netloc/path without the trailing slash, except for the root
NavNormalForm(parsed) ==
  IF EndsWith(parsed.path, <<"/">>) /\ parsed.path # <<"/">>
  THEN parsed.scheme \o <<":","/","/">> \o parsed.netloc
         \o SubSeq(parsed.path, 1, Len(parsed.path) - 1)
  ELSE parsed.scheme \o <<":","/","/">> \o parsed.netloc \o parsed.path

\* NavDetector._normalize_url
NavDetector_normalize_url(href, base_url) ==
  IF href = << >> \/ NavSkipped(href) THEN NoHref
  ELSE NavNormalForm(urlparse(urljoin(base_url, href)))

_should_exclude(url) == AnyMatch(EXCLUDE_PATTERNS, Lower(url))

_is_primary_page_pattern(url) ==
  AnyMatch(PRIMARY_PAGE_PATTERNS, Lower(urlparse(url).path))

_is_internal_link(url, base_url) ==
  urlparse(url).netloc = urlparse(base_url).netloc \/ urlparse(url).netloc = << >>

\* self._nav_links[full_url] = current_score + score
NavAccumulate(scores, full_url, score) ==
  IF full_url \in DOMAIN scores THEN [scores EXCEPT ![full_url] = @ + score]
  ELSE scores @@ (full_url :> score)

\* the body of the loop over the matched elements
NavScored(scores, full_url, score, base_url) ==
  IF /\ full_url # NoHref
     /\ _is_internal_link(full_url, base_url)
     /\ ~_should_exclude(full_url)
  THEN NavAccumulate(scores, full_url, score)
  ELSE scores

\* one matched element
NavElement(scores, element, score, base_url) ==
  IF element.href = << >> THEN scores
  ELSE NavScored(scores, NavDetector_normalize_url(element.href, base_url),
                 score, base_url)

\* for element in elements
RECURSIVE NavElements(_, _, _, _)
NavElements(scores, elements, score, base_url) ==
  IF elements = << >> THEN scores
  ELSE NavElements(NavElement(scores, Head(elements), score, base_url),
                   Tail(elements), score, base_url)

\* for selector_config in self.SELECTORS
RECURSIVE NavSelectors(_, _, _, _)
NavSelectors(scores, doc, selectors, base_url) ==
  IF selectors = << >> THEN scores
  ELSE NavSelectors(NavElements(scores, Select(doc, Head(selectors).css),
                                Head(selectors).score, base_url),
                    doc, Tail(selectors), base_url)

\* bonus points for primary page patterns
PrimaryBonus(scores) ==
  [u \in DOMAIN scores |->
     scores[u] + (IF _is_primary_page_pattern(u) THEN 3 ELSE 0)]

\* the map url -> score of extract_nav_links (all_detected)
extract_nav_links(doc, base_url) ==
  PrimaryBonus(NavSelectors(NoNav, doc, SELECTORS, base_url))

(***************************************************************************)
(* Study of the structural pass over homepage documents                    *)
(***************************************************************************)
MaxAnchorsBound == 3

NavHrefs == { <<"/","a","b","o","u","t">>, <<"/","b">>, <<"/","b","/">>, <<"/","t","a","g","/","x">>, <<"h","t","t","p",":","/","/","e",".","i","o","/">> }

\* ancestors of an anchor: inside <nav>, inside <footer>, inside
\* <aside><nav class="navbar">, inside a <div>
NavContexts ==
  { << {"nav"} >>, << {"footer"} >>, << {"aside"}, {"nav", ".navbar"} >>,
    << {"div"} >> }

Anchors == [href : NavHrefs, ancestors : NavContexts]

Documents == UNION { [1..n -> Anchors] : n \in 0..MaxAnchorsBound }

NavInit ==
  /\ pc = "soup"
  /\ IdleCrawl
  /\ pages = << >>
  /\ issues = << >>
  /\ seo_metadata = << >>
  /\ soup \in Documents
  /\ nu = NoUrl
  /\ nv = NoUrl
  /\ IdleOperations

\* Crawler._detect_navigation_from_homepage with the homepage answering 200
DetectNavigation ==
  /\ pc = "soup"
  /\ nav_scores' = extract_nav_links(soup, U_home)
  /\ pc' = "scored"
  /\ UNCHANGED << site, crawl, crawl_exists, crawl_status, url_queue,
                  visited_urls, pages_crawled, external_domains_crawled,
                  crawl_deleted, pages, links, issues, last, stop_reason,
                  failed, finalized, studyVars, clockVars >>

NavNext == DetectNavigation

SpecNav == NavInit /\ [][NavNext]_vars

\* the URL an anchor points to, NoHref when the pass drops it
PointsTo(a) ==
  IF a.href = << >> THEN NoHref
  ELSE IF NavDetector_normalize_url(a.href, U_home) = NoHref THEN NoHref
  ELSE IF ~_is_internal_link(NavDetector_normalize_url(a.href, U_home), U_home)
  THEN NoHref
  ELSE IF _should_exclude(NavDetector_normalize_url(a.href, U_home)) THEN NoHref
  ELSE NavDetector_normalize_url(a.href, U_home)

\* the selector rules that match some anchor pointing to url
RulesMatched(doc, url) ==
  { r \in 1..Len(SELECTORS) :
      \E e \in 1..Len(doc) :
        PointsTo(doc[e]) = url /\ ChainMatches(SELECTORS[r].css, doc[e].ancestors) }

RECURSIVE SumWeights(_)
SumWeights(rules) ==
  IF rules = {} THEN 0
  ELSE SELECTORS[CHOOSE r \in rules : TRUE].score
         + SumWeights(rules \ {CHOOSE r \in rules : TRUE})

ScoredUrls(doc) ==
  { PointsTo(doc[e]) : e \in 1..Len(doc) } \ {NoHref}

\* C17: the score of a URL is the sum of the weights of the selector rules
\* it matches, each rule counted once however many anchors point to the
\* URL, plus 3 when the URL matches a primary-page path pattern.
C17_StructuralScore ==
  pc = "scored" =>
    \A url \in ScoredUrls(soup) :
      RulesMatched(soup, url) # {} =>
        /\ url \in DOMAIN nav_scores
        /\ nav_scores[url] =
             SumWeights(RulesMatched(soup, url))
               + (IF _is_primary_page_pattern(url) THEN 3 ELSE 0)

(***************************************************************************)
(* C18: the external-domain decision                                       *)
(***************************************************************************)
\* the anchors of a page that are candidates for the external-domain
\* decision: another host, not blacklisted, following enabled, within depth
ExternalCandidates(item, hrefs) ==
  { i \in 1..Len(hrefs) :
      /\ urlparse(hrefs[i]).netloc # Domain(crawl)
      /\ ~is_domain_blacklisted(hrefs[i])
      /\ crawl.follow_external_links
      /\ item.depth + 1 <= crawl.external_depth }

\* an HTML page is fetched and its links are processed in this step
ProcessesPage ==
  /\ pc = "crawl" /\ url_queue # << >>
  /\ visited_urls' # visited_urls
  /\ PageOf(site, Head(url_queue).url).kind = "html"

\* the decision the claim describes for host, given the set seen so far
Accepted(host, seen) ==
  host \in seen \/ Cardinality(seen) < crawl.max_external_links

\* the first candidate of the page meets the seen set as the step found it
FirstDecision(hrefs, cands) ==
  \A i \in cands :
    (\A j \in cands : i <= j) =>
      IF Accepted(urlparse(hrefs[i]).netloc, external_domains_crawled)
      THEN /\ urlparse(hrefs[i]).netloc \in external_domains_crawled'
           /\ \E q \in 1..Len(url_queue') : url_queue'[q].url = hrefs[i]
      ELSE external_domains_crawled' = external_domains_crawled

\* C18: a candidate host is accepted exactly when it is in the seen set or
\* the seen set has fewer than max_external_domains members; acceptance adds
\* the host and queues the URL, rejection leaves the seen set unchanged.
C18_ExternalDecision ==
  [][ ProcessesPage =>
        FirstDecision(PageOf(site, Head(url_queue).url).links,
                      ExternalCandidates(Head(url_queue),
                                         PageOf(site, Head(url_queue).url).links)) ]_vars

(***************************************************************************)
(* C19: the terminal status                                                *)
(***************************************************************************)
\* the step of crawl_site that writes the terminal status
StatusStep == pc = "status" /\ pc' # "status"

\* C19: a crawl that ends with pages_crawled = 0 is written as failed,
\* never as completed; completed is written only with pages_crawled > 0,
\* and the Issue Detector runs only then.
C19_FailedWhenEmpty ==
  [][ /\ (StatusStep /\ crawl_exists /\ pages_crawled = 0)
           => crawl_status' = "failed" /\ pc' = "done" /\ issues' = issues
      /\ (StatusStep /\ crawl_exists /\ pages_crawled > 0)
           => crawl_status' = "completed"
      /\ (crawl_status' = "completed" /\ crawl_status # "completed")
           => StatusStep /\ pages_crawled > 0
      /\ (pc = "detect" \/ pc' = "detect") => pages_crawled > 0 ]_vars

\* the loop ran dry without one page crawled and the job ended as failed
C19_Witness ==
  /\ pc = "done"
  /\ stop_reason = "exhausted"
  /\ pages_crawled = 0
  /\ crawl_status = "failed"

(***************************************************************************)
(* C20: the runtime limit                                                  *)
(***************************************************************************)
\* an iteration begins with the runtime limit exceeded
TimeoutDue == pc = "crawl" /\ LoopCond /\ runtime_exceeded

\* the loop ends at the runtime test: nothing is popped or fetched
EndsAsTimeout ==
  /\ stop_reason' = "timeout" /\ pc' = "finalize"
  /\ url_queue' = url_queue /\ visited_urls' = visited_urls
  /\ pages_crawled' = pages_crawled
  /\ pages' = pages /\ links' = links /\ issues' = issues

\* start() after a loop that ended on the runtime limit
AfterTimeout == pc = "finalize" /\ stop_reason = "timeout" /\ pc' # pc

RanDryUndisturbed ==
  /\ pc \in {"finalize", "status", "detect", "done"}
  /\ stop_reason = "exhausted"
  /\ pages_crawled < crawl.max_pages
  /\ failed = {}
  /\ crawl_exists

\* C21: when the loop has run dry with the budgets not exhausted and no
\* error, every internal page whose shortest link distance from the seed is
\* at most internal_depth has been fetched.
C21_ShortestPathFetched ==
  RanDryUndisturbed => ReachablePages(site, crawl) \subseteq visited_urls

(***************************************************************************)
(* C22: terminal statuses                                                  *)
(***************************************************************************)
\* C22: once the status of a crawl is completed, failed or stopped, no
\* write changes it while the row exists, whatever the interleaving of the
\* worker, stop_crawl, mark_crawl_failed and the stale-crawl monitor.
C22_TerminalStatusKept ==
  [][ (crawl_status \in TerminalStatus /\ crawl_exists')
        => crawl_status' = crawl_status ]_vars

(***************************************************************************)
(* C23: candidates and their order                                         *)
(***************************************************************************)
\* the candidates as the claim describes them
ClaimedCandidates(pgs, cr) ==
  { i \in 1..Len(pgs) :
      /\ HostOf(pgs[i].url) = Domain(cr)
      /\ ~IsExcluded(Lower(urlparse(pgs[i].url).path), urlparse(pgs[i].url).query)
      /\ \/ IsHomepagePath(pgs[i].url)
         \/ pgs[i].nav_score >= 8
         \/ Len(pgs) <= 6 }

\* a ranks before b: homepage first, then the higher nav_score, then the
\* smaller number of slashes in the URL
RanksBefore(a, b) ==
  \/ IsHomepagePath(a.url) /\ ~IsHomepagePath(b.url)
  \/ /\ IsHomepagePath(a.url) = IsHomepagePath(b.url)
     /\ \/ a.nav_score > b.nav_score
        \/ a.nav_score = b.nav_score /\ CountSlash(a.url) < CountSlash(b.url)

\* C23: the pages marked primary are candidates (on the start host, not
\* excluded, and homepage or nav_score >= 8 or at most 6 pages in all), as
\* many of them as the cap of 15 allows, and no candidate left out ranks
\* before a marked one in the order homepage, descending nav_score,
\* ascending slash count.
C23_CandidatesRanked ==
  pc \in {"finalized", "refinalized"} =>
    /\ PrimaryRows(pages) \subseteq ClaimedCandidates(pages, crawl)
    /\ Cardinality(PrimaryRows(pages)) =
         Min(15, Cardinality(ClaimedCandidates(pages, crawl)))
    /\ \A p \in PrimaryRows(pages) :
         \A q \in ClaimedCandidates(pages, crawl) \ PrimaryRows(pages) :
           ~RanksBefore(pages[q], pages[p])

\* more candidates than the cap, and the slash count decides between a
\* marked page and one left out that has the same nav_score
C23_Witness ==
  /\ pc = "finalized"
  /\ Cardinality(ClaimedCandidates(pages, crawl)) > 15
  /\ \E p \in PrimaryRows(pages) :
       \E q \in ClaimedCandidates(pages, crawl) \ PrimaryRows(pages) :
         /\ pages[p].nav_score = pages[q].nav_score
         /\ CountSlash(pages[p].url) < CountSlash(pages[q].url)

(***************************************************************************)
(* C24: the Issue Detector replaces the issues of the crawl                *)
(***************************************************************************)
\* the step in which detect_and_store_issues runs
DetectorRuns == pc = "detect" /\ pc' = "done"

\* C24: after a run of the Issue Detector the stored issues of the crawl
\* are exactly the newly computed ones, also when none was computed.
C24_IssuesReplaced ==
  [][ (DetectorRuns /\ crawl_exists)
        => \E fetched \in FetchOrders(pages) :
             issues' = detect_all_issues(fetched, links) ]_vars

(***************************************************************************)
(* C25: orphan pages                                                       *)
(***************************************************************************)
\* the URLs reported as orphan pages
OrphansReported(iss) ==
  {iss[i].context : i \in {j \in 1..Len(iss) : iss[j].type = "Content - Orphan Page"}}

\* the HTML pages stored that no internal link points to
Unlinked(pgs, lks) ==
  {pgs[i].url : i \in {j \in 1..Len(pgs) :
                         /\ _is_html_page(pgs[j])
                         /\ pgs[j].url \notin LinkedUrls(lks)}}

\* the homepage of the crawl: the root of the start host, or the seed
Homepages(pgs, cr) ==
  {pgs[i].url : i \in {j \in 1..Len(pgs) :
                         \/ pgs[j].url = cr.url
                         \/ (HostOf(pgs[j].url) = Domain(cr) /\ IsHomepagePath(pgs[j].url))}}

\* C25: the pages reported as orphan are HTML pages that no internal link
\* points to, the homepage is not among them, and every such page other
\* than the homepage is reported, in whatever order the rows are returned.
C25_OrphansExact ==
  [][ (DetectorRuns /\ crawl_exists)
        => /\ OrphansReported(issues') \subseteq Unlinked(pages, links)
           /\ OrphansReported(issues') \cap Homepages(pages, crawl) = {}
           /\ Unlinked(pages, links) \ Homepages(pages, crawl)
                 \subseteq OrphansReported(issues') ]_vars

(***************************************************************************)
(* Study of add_to_blacklist and remove_from_blacklist                     *)
(***************************************************************************)
\* the variables of the worker and the crawler
engineVars == << pc, site, crawl, crawl_exists, crawl_status, url_queue,
                 visited_urls, pages_crawled, external_domains_crawled,
                 crawl_deleted, nav_scores, pages, links, issues, last,
                 stop_reason, failed, finalized, runtime_exceeded, check_due >>

formVars == << soup, seo_metadata, nu, nv >>

\* the domains an administrator passes: listed and unlisted ones, in lower
\* and in mixed case
BlacklistInputs ==
  { <<"f","a","c","e","b","o","o","k",".","c","o","m">>, <<"F","a","c","e","b","o","o","k",".","c","o","m">>, <<"x",".","c","o","m">>, <<"y","o","u","t","u",".","b","e">>,
    <<"s","p","a","m",".","i","o">>, <<"J","u","n","k",".","i","o">> }

BlacklistInit ==
  /\ pc = "admin"
  /\ IdleCrawl
  /\ pages = << >>
  /\ soup = NoSoup
  /\ seo_metadata = << >>
  /\ nu = NoUrl
  /\ nv = NoUrl
  /\ domain_blacklist = DOMAIN_BLACKLIST
  /\ custom_blacklist = {}
  /\ rate_limiter = NoLimiter
  /\ now = 0
  /\ requests = << >>

add_to_blacklist ==
  /\ pc = "admin"
  /\ \E domain \in BlacklistInputs :
       /\ custom_blacklist' = custom_blacklist \cup {Lower(domain)}
       /\ domain_blacklist' = domain_blacklist \cup {Lower(domain)}
  /\ UNCHANGED << engineVars, formVars, rate_limiter, now, requests >>

remove_from_blacklist ==
  /\ pc = "admin"
  /\ \E domain \in BlacklistInputs :
       /\ custom_blacklist' = custom_blacklist \ {Lower(domain)}
       /\ domain_blacklist' = domain_blacklist \ {Lower(domain)}
  /\ UNCHANGED << engineVars, formVars, rate_limiter, now, requests >>

BlacklistNext == add_to_blacklist \/ remove_from_blacklist

SpecBlacklist == BlacklistInit /\ [][BlacklistNext]_vars

\* C26: after any sequence of add_to_blacklist and remove_from_blacklist
\* calls every domain of the static categorised sets is still blacklisted,
\* and the custom set is a subset of the combined blacklist.
C26_StaticStaysBlacklisted ==
  pc = "admin" =>
    /\ \A domain \in DOMAIN_BLACKLIST :
         BlacklistedUnder(DOMAIN_BLACKLIST, <<"h","t","t","p","s",":","/","/">> \o domain)
           => BlacklistedUnder(domain_blacklist, <<"h","t","t","p","s",":","/","/">> \o domain)
    /\ custom_blacklist \subseteq domain_blacklist

(***************************************************************************)
(* Study of the requests of one job and its RateLimiter                    *)
(***************************************************************************)
\* time.time() counts ticks; a second has TicksPerSecond of them
TicksPerSecond == 2

\* Crawl.rate_limit, requests per second
RateLimits == {1, 2}

\* the clock and the log of the study are bounded
MaxClockBound == 8
MaxLogBound == 9

\* the ticks a request takes to answer or to fail
Durations == {0, 1}

\* RateLimiter.__init__
RateLimiter(requests_per_second) ==
  [delay |-> TicksPerSecond \div requests_per_second, last_request_time |-> 0]

\* the time at which RateLimiter.wait returns when called at time t
WaitReturns(limiter, t) ==
  IF t - limiter.last_request_time < limiter.delay
  THEN limiter.last_request_time + limiter.delay
  ELSE t

\* RateLimiter.wait: self.last_request_time = time.time()
Waited(limiter, t) ==
  [limiter EXCEPT !.last_request_time = WaitReturns(limiter, t)]

Event(kind, what, at) == [kind |-> kind, what |-> what, at |-> at]

\* await self.rate_limiter.wait() followed by a request
WaitThen(log, limiter, t, kind, what) ==
  log \o << Event("wait", what, WaitReturns(limiter, t)),
            Event(kind, what, WaitReturns(limiter, t)) >>

RateInit ==
  /\ pc = "job_nav"
  /\ IdleCrawl
  /\ pages = << >>
  /\ soup = NoSoup
  /\ seo_metadata = << >>
  /\ nu = NoUrl
  /\ nv = NoUrl
  /\ domain_blacklist = NoList
  /\ custom_blacklist = NoList
  /\ \E rps \in RateLimits : rate_limiter = RateLimiter(rps)
  \* the epoch is long past when the job starts
  /\ now = TicksPerSecond
  /\ requests = << >>

RateFrame == UNCHANGED << site, crawl, crawl_exists, crawl_status, url_queue,
                          visited_urls, pages_crawled, external_domains_crawled,
                          crawl_deleted, nav_scores, pages, links, issues, last,
                          stop_reason, failed, finalized, runtime_exceeded,
                          check_due, formVars, domain_blacklist,
                          custom_blacklist >>

\* the log and the clock have room for one more handler
RateRoom == Len(requests) + 3 <= MaxLogBound /\ now + 2 <= MaxClockBound

\* _detect_navigation_from_homepage: wait, GET of the homepage
RequestHomepage ==
  /\ pc = "job_nav"
  /\ \E d \in Durations :
       /\ requests' = WaitThen(requests, rate_limiter, now, "GET", "homepage")
       /\ rate_limiter' = Waited(rate_limiter, now)
       /\ now' = WaitReturns(rate_limiter, now) + d
  /\ pc' = "job_robots"
  /\ RateFrame

\* _process_robots_and_sitemaps: wait, GET of robots.txt, then
\* _process_sitemap for the sitemap it names: wait, GET
RequestRobots ==
  /\ pc = "job_robots"
  /\ \E d \in Durations, sitemap \in BOOLEAN :
       IF sitemap
       THEN /\ requests' =
                 WaitThen(WaitThen(requests, rate_limiter, now, "GET", "robots"),
                          Waited(rate_limiter, now),
                          WaitReturns(rate_limiter, now) + d, "GET", "sitemap")
            /\ rate_limiter' =
                 Waited(Waited(rate_limiter, now), WaitReturns(rate_limiter, now) + d)
            /\ now' = WaitReturns(Waited(rate_limiter, now),
                                  WaitReturns(rate_limiter, now) + d)
       ELSE /\ requests' = WaitThen(requests, rate_limiter, now, "GET", "robots")
            /\ rate_limiter' = Waited(rate_limiter, now)
            /\ now' = WaitReturns(rate_limiter, now) + d
  /\ pc' = "job_loop"
  /\ RateFrame

\* start() without respect_robots_txt
SkipRobots ==
  /\ pc = "job_robots"
  /\ pc' = "job_loop"
  /\ RateFrame
  /\ UNCHANGED << rate_limiter, now, requests >>

\* _crawl_url: wait, GET of the page; an HTML answer that needs JavaScript
\* is rendered by _render_with_playwright, which loads the URL again
RequestPage ==
  /\ pc = "job_loop"
  /\ RateRoom
  /\ \E d \in Durations, render \in BOOLEAN :
       /\ requests' =
            IF render
            THEN Append(WaitThen(requests, rate_limiter, now, "GET", "page"),
                        Event("goto", "page", WaitReturns(rate_limiter, now) + d))
            ELSE WaitThen(requests, rate_limiter, now, "GET", "page")
       /\ rate_limiter' = Waited(rate_limiter, now)
       /\ now' = WaitReturns(rate_limiter, now) + d
  /\ pc' = pc
  /\ RateFrame

\* _check_and_save_link for a link of a fetched page: wait, HEAD, and a GET
\* when the HEAD raises
RequestLinkStatus ==
  /\ pc = "job_loop"
  /\ RateRoom
  /\ \E i \in 1..Len(requests) : requests[i].what = "page"
  /\ \E d \in Durations, head_raises \in BOOLEAN :
       /\ requests' =
            IF head_raises
            THEN Append(WaitThen(requests, rate_limiter, now, "HEAD", "link"),
                        Event("GET", "link", WaitReturns(rate_limiter, now) + d))
            ELSE WaitThen(requests, rate_limiter, now, "HEAD", "link")
       /\ rate_limiter' = Waited(rate_limiter, now)
       /\ now' = WaitReturns(rate_limiter, now) + d
  /\ pc' = pc
  /\ RateFrame

\* time passes between two handlers
RateTick ==
  /\ pc \in {"job_nav", "job_robots", "job_loop"}
  /\ now < MaxClockBound
  /\ now' = now + 1
  /\ UNCHANGED << pc, rate_limiter, requests >>
  /\ RateFrame

RateNext ==
  \/ RequestHomepage
  \/ RequestRobots
  \/ SkipRobots
  \/ RequestPage
  \/ RequestLinkStatus
  \/ RateTick

SpecRate == RateInit /\ [][RateNext]_vars

IsRequest(e) == e.kind # "wait"

\* C27: every request of the job is preceded by its own rate-limiter wait,
\* and two consecutive requests are at least 1 / rate_limit apart.
C27_OwnWait ==
  \A i \in 1..Len(requests) :
    IsRequest(requests[i]) =>
      /\ i > 1
      /\ requests[i - 1].kind = "wait"
      /\ \A j \in 1..(i - 1) :
           IsRequest(requests[j]) =>
             requests[i].at - requests[j].at >= rate_limiter.delay

(***************************************************************************)
(* C28: a response that is not HTML                                        *)
(***************************************************************************)
\* the iteration of the loop that processes a URL answered with a content
\* type other than HTML
ProcessesNonHtml ==
  /\ pc = "crawl"
  /\ visited_urls' # visited_urls
  /\ last'.kind = "nonhtml"

\* C28 as stated: processing a URL whose response is not HTML enqueues
\* nothing, leaves the links unchanged and leaves pages_crawled unchanged.
C28_NonHtmlFrame ==
  [][ ProcessesNonHtml
        => /\ url_queue' = Tail(url_queue)
           /\ links' = links
           /\ pages_crawled' = pages_crawled ]_vars

\* C28, amended: processing a URL whose response is not HTML enqueues
\* nothing and leaves the links unchanged; the URL is counted, pages_crawled
\* grows by one.
C28_NonHtmlCounted ==
  [][ ProcessesNonHtml
        => /\ url_queue' = Tail(url_queue)
           /\ links' = links
           /\ pages_crawled' = pages_crawled + 1 ]_vars

\* a non-HTML resource was processed while links were stored and URLs
\* were waiting in the queue
C28_Witness ==
  /\ pc = "crawl"
  /\ last.kind = "nonhtml"
  /\ pages_crawled >= 2
  /\ links # << >>
  /\ url_queue # << >>

(***************************************************************************)
(* C29: pages_crawled and the rows of the table pages                      *)
(***************************************************************************)
NonErrorRows(pgs) ==
  Cardinality({i \in 1..Len(pgs) : pgs[i].content_type # "error"})

\* C29: pages_crawled grows only when a row that is not an error row has
\* been inserted into pages, and while the crawl exists pages_crawled is
\* the number of rows of the crawl that are not error rows.
C29_CountedWhenPersisted ==
  [][ /\ (pages_crawled' # pages_crawled)
           => /\ Len(pages') = Len(pages) + 1
              /\ pages'[Len(pages')].content_type # "error"
      /\ crawl_exists' => pages_crawled' = NonErrorRows(pages') ]_vars

(***************************************************************************)
(* C30: crawl_deleted                                                      *)
(***************************************************************************)
\* C30: crawl_deleted becomes true only when the crawl row is gone, and
\* finalization is not skipped for a crawl that exists.
C30_DeletedOnlyWhenGone ==
  [][ /\ (~crawl_deleted /\ crawl_deleted') => ~crawl_exists
      /\ (pc = "finalize" /\ pc' # "finalize" /\ crawl_exists) => finalized' ]_vars

====
